---- MODULE Spec2Model ----
(***************************************************************************)
(* Model of the ATS-BT serial command/response engine (ATSBT in            *)
(* Python/ATS-BT/ats_bt_control.py) and of the A2DP/AVRCP connection       *)
(* workflow built on it (A2DPConnection in                                 *)
(* Python/ATS-BT/ats_bt_a2dp_connect.py).                                  *)
(*                                                                         *)
(* Text is modelled as TLA+ strings and every test the code makes on text  *)
(* (substring tests, strip, join, the OPEN_OK regular expression) is       *)
(* computed character by character.                                        *)
(*                                                                         *)
(* Time is counted in ticks of 5 ms.  A sleep takes its time and the other *)
(* statements take none.  The short waits of the code keep their value     *)
(* (poll sleeps, COMMAND_DELAY, the 2 s grace); the long ones (timeouts    *)
(* and windows, on which the loops are parametric) are scaled down.        *)
(***************************************************************************)
EXTENDS Integers, Sequences, FiniteSets, TLC

VARIABLES
    serial,          \* ATSBT.serial: "None" or "open"
    inbuf,           \* the transport's input buffer: lines not yet read
    paired_address,  \* A2DPConnection.paired_address
    a2dp_link_id,    \* A2DPConnection.a2dp_link_id
    avrcp_link_id,   \* A2DPConnection.avrcp_link_id
    op,              \* the public operation in progress
    pc,              \* position inside it
    command,         \* the command line of the call in progress
    timeout,         \* the timeout / window of the poll loop in progress
    lines,           \* response_lines / lines: what the poll loop collected
    elapsed,         \* time.time() - start_time of the poll loop in progress
    ret,             \* outcome of the last finished operation
    wire,            \* the command line on the wire, None when none is awaited
    consumed,        \* history: lines the current call took from the transport
    sinceEnd,        \* history: time since the last response collection ended
    endReason,       \* history: how the await cycle of the last call ended
    owed,            \* the device may still report the result of a command
                     \* whose await cycle is over
    emitted,         \* history: lines the device sent since the last return
    address,         \* the address argument of the operation in progress
    cached_mac,      \* ATSBT._cached_mac
    stage            \* where main of ats_bt_a2dp_connect stands

vars == <<serial, inbuf, paired_address, a2dp_link_id, avrcp_link_id, op, pc,
          command, timeout, lines, elapsed, ret, wire, consumed, sinceEnd,
          endReason, owed, emitted, address, cached_mac, stage>>

\* the bookkeeping of A2DPConnection
conn == <<paired_address, a2dp_link_id, avrcp_link_id>>


----------------------------------------------------------------------------
(* Bounds of the model *)

\* lines the device sends from the return of one call to the return of the
\* next (those still buffered at the first return included)
MaxEmit == 2
\* ATSBT.DEFAULT_TIMEOUT (2 s in the code), scaled, in ticks
DEFAULT_TIMEOUT == 3
\* the PAIR timeout (30 s in the code), scaled, in ticks
PAIR_TIMEOUT == 5
\* the OPEN timeout (15 s in the code), scaled, in ticks
OPEN_TIMEOUT == 15
\* the scan window (duration + 3 s in the code), scaled, in ticks
SCAN_WINDOW == 25

(* Program constants, in ticks of 5 ms *)

\* ATSBT.COMMAND_DELAY = 0.15
COMMAND_DELAY == 30
\* time.sleep(0.01) in send_command
SEND_POLL_SLEEP == 2
\* time.sleep(0.05) in scan_for_devices and _open_profile
RAW_POLL_SLEEP == 10
\* time.sleep(2.0) in _open_profile, after PENDING
OPEN_GRACE == 400
\* time.sleep(0.5) in connect
CONNECT_SETTLE == 100

\* Python's None
None == "<None>"

----------------------------------------------------------------------------
(* Text *)

\* Python: t in s
Contains(s, t) ==
    \E i \in 1..(Len(s) - Len(t) + 1) : SubSeq(s, i, i + Len(t) - 1) = t

\* the characters str.strip() removes
Whitespace == {" ", "\r", "\n", "\t"}

IsSpaceAt(s, i) == SubSeq(s, i, i) \in Whitespace

\* Python: s.strip()
Strip(s) ==
    LET keep == {i \in 1..Len(s) : ~IsSpaceAt(s, i)}
        lo == CHOOSE i \in keep : \A j \in keep : i <= j
        hi == CHOOSE i \in keep : \A j \in keep : i >= j
    IN  IF keep = {} THEN "" ELSE SubSeq(s, lo, hi)

\* Python: '\n'.join(ls)
RECURSIVE Join(_)
Join(ls) ==
    IF ls = <<>> THEN ""
    ELSE IF Len(ls) = 1 THEN ls[1]
    ELSE ls[1] \o "\n" \o Join(Tail(ls))

\* the first place where t occurs in s, 0 when there is none
FirstIndex(s, t) ==
    LET at == {i \in 1..(Len(s) - Len(t) + 1) : SubSeq(s, i, i + Len(t) - 1) = t}
    IN  IF at = {} THEN 0 ELSE CHOOSE i \in at : \A j \in at : i <= j

\* the whitespace-separated tokens of s from position p on, as <<first, last>>
TokensFrom(s, p) ==
    {t \in (p..Len(s)) \X (p..Len(s)) :
        /\ t[1] <= t[2]
        /\ \A k \in t[1]..t[2] : ~IsSpaceAt(s, k)
        /\ t[1] = p \/ IsSpaceAt(s, t[1] - 1)
        /\ t[2] = Len(s) \/ IsSpaceAt(s, t[2] + 1)}

\* the characters \d matches
Digits == {"0", "1", "2", "3", "4", "5", "6", "7", "8", "9"}

IsDigitAt(s, i) == SubSeq(s, i, i) \in Digits

\* Python: command += '\r' unless it ends with one
WithCR(c) ==
    IF Len(c) > 0 /\ SubSeq(c, Len(c), Len(c)) = "\r" THEN c ELSE c \o "\r"

----------------------------------------------------------------------------
(* The transport and the device behind it *)

\* What the device can put on the line: readline() results before decoding
\* and strip().  A line in the buffer carries two history fields: re, whether
\* it answers the command being awaited ("cur") or one whose await cycle is
\* over ("late"), and stale, whether it was buffered when the call in
\* progress began.
RepliesTo(o) ==
    CASE o = "pair_device" ->
            {"GARBAGE", "PENDING", "PAIR_OK\r", "ERROR", "PAIR_ERROR TOKEN"}
      [] o \in {"open_a2dp", "open_avrcp"} ->
            {"GARBAGE", "PENDING", "ERROR", "OPEN_OK 12\r", "OPEN_OK",
             "OPEN_OK A2DP"}
      [] o = "scan_for_devices" ->
            {"INQU_OK\r",
             "INQUIRY F84E1776FDB1 \"LinkBuds S\" 240404 -61 dBm",
             "PENDINGINQUIRY AABBCCDDEEFF"}
      [] o = "get_mac_address" ->
            {"LOCAL_ADDR=00:1A:2B:3C:4D:5EOK\r",
             "LOCAL_ADDR AA:BB:CC:DD:EE:FF",
             "LOCAL_ADDR=OK",
             "OK", "ERROR"}
      [] OTHER ->
            {"\r", "GARBAGE", "STATUS OK\r", "ACK", "PENDING", "ERROR"}

\* the results the device may report late, after the await cycle of their
\* command is over
LateLines == {"ERROR"}

\* a line that reports the result of a command, not an acknowledgment of it
IsResult(line) == Contains(line, "OK") \/ Contains(line, "ERROR")

Line(t, r) == [text |-> t, re |-> r, stale |-> FALSE]

\* a reset that leaves the buffered input in place
reset_input_buffer_kept(buf) == buf

\* serial.Serial.reset_input_buffer()
reset_input_buffer(buf) == <<>>

\* history: the lines buffered when a call begins
MarkStale(buf) == [i \in DOMAIN buf |-> [buf[i] EXCEPT !.stale = TRUE]]

\* serial.Serial.in_waiting > 0
in_waiting(buf) == Len(buf) > 0

Min(a, b) == IF a < b THEN a ELSE b

Max(a, b) == IF a > b THEN a ELSE b

\* Python's truth value of a string or None
Truthy(x) == x # None /\ x # ""

----------------------------------------------------------------------------
(* Outcomes *)

\* no operation has finished
NoRet ==
    [op |-> "none", status |-> "none", text |-> "", ok |-> FALSE,
     link |-> None, devices |-> <<>>]

\* operation o returned: the response text, the boolean, the link id
Returned(o, t, b, l) ==
    [op |-> o, status |-> "ok", text |-> t, ok |-> b, link |-> l,
     devices |-> <<>>]

\* operation o raised e
Raised(o, e) ==
    [op |-> o, status |-> e, text |-> "", ok |-> FALSE, link |-> None,
     devices |-> <<>>]

----------------------------------------------------------------------------
(* ATSBT.send_command *)

\* the terminal responses of send_command
Terminals == {"OK", "ERROR", "PENDING", "ACK"}

\* a terminal test that forgets the acknowledgment marker
IsTerminal_noACK(line) ==
    \E term \in Terminals \ {"ACK"} : Contains(line, term)

\* any(term in line for term in ['OK', 'ERROR', 'PENDING', 'ACK'])
IsTerminal(line) == \E term \in Terminals : Contains(line, term)

\* a loop condition that gives up one poll too early
InTime_early(e, t) == e + SEND_POLL_SLEEP < t

\* while time.time() - start_time < response_timeout
InTime(e, t) == e < t

\* ATSBT.is_connected
is_connected == serial = "open"

\* a send_command that does not check the connection
SendEntry_unchecked(o, cmd, to) ==
    /\ inbuf' = reset_input_buffer(MarkStale(inbuf))
    /\ command' = WithCR(cmd)
    /\ timeout' = to
    /\ lines' = <<>>
    /\ consumed' = <<>>
    /\ op' = o
    /\ pc' = "send_write"
    /\ ret' = NoRet

\* send_command up to the clearing of the input buffer: the connection check,
\* the carriage return, reset_input_buffer()
SendEntry(o, cmd, to) ==
    IF ~is_connected
    THEN /\ ret' = Raised(o, "RuntimeError")
         /\ pc' = "returned"
         /\ op' = "none"
         /\ UNCHANGED <<inbuf, command, timeout, lines, consumed>>
    ELSE /\ inbuf' = reset_input_buffer(MarkStale(inbuf))
         /\ command' = WithCR(cmd)
         /\ timeout' = to
         /\ lines' = <<>>
         /\ consumed' = <<>>
         /\ op' = o
         /\ pc' = "send_write"
         /\ ret' = NoRet

\* self.serial.write(command.encode('ascii')); flush(); start_time = time.time()
Write ==
    /\ wire' = command
    /\ elapsed' = 0

SendWrite ==
    /\ pc = "send_write"
    /\ Write
    /\ pc' = "send_poll"
    /\ UNCHANGED <<serial, cached_mac, stage, inbuf, conn, op, command,
                   timeout, lines, ret, consumed, sinceEnd, endReason, owed,
                   emitted, address>>

\* the poll loop ends: the response collection is over; the command's
\* result is still to come when `late`
EndPoll(why, late) ==
    /\ endReason' = why
    /\ owed' = (owed \/ late)
    /\ sinceEnd' = 0
    /\ pc' = "send_delay"

\* one turn of the poll loop with nothing buffered: time.sleep(0.01)
SendPollEmpty ==
    /\ pc = "send_poll"
    /\ InTime(elapsed, timeout)
    /\ ~in_waiting(inbuf)
    /\ elapsed' = elapsed + SEND_POLL_SLEEP
    /\ UNCHANGED <<serial, cached_mac, stage, inbuf, conn, op, pc, command,
                   timeout, lines, ret, wire, consumed, sinceEnd, endReason,
                   owed, emitted, address>>

\* one turn of the poll loop with input buffered: readline(), decode, strip
SendPollRead ==
    /\ pc = "send_poll"
    /\ InTime(elapsed, timeout)
    /\ in_waiting(inbuf)
    /\ LET line == Strip(Head(inbuf).text)
       IN  /\ inbuf' = Tail(inbuf)
           /\ consumed' = Append(consumed, Head(inbuf))
           /\ lines' = IF line # "" THEN Append(lines, line) ELSE lines
           /\ IF line # "" /\ IsTerminal(line)
              THEN EndPoll("marker", ~IsResult(line)) /\ UNCHANGED elapsed
              ELSE /\ elapsed' = elapsed + SEND_POLL_SLEEP
                   /\ UNCHANGED <<pc, endReason, owed, sinceEnd>>
    /\ UNCHANGED <<serial, cached_mac, stage, conn, op, command, timeout, ret,
                   wire, emitted, address>>

\* readline() raises: except Exception: break
SendPollRaise ==
    /\ pc = "send_poll"
    /\ InTime(elapsed, timeout)
    /\ in_waiting(inbuf)
    /\ EndPoll("exception", FALSE)
    /\ UNCHANGED <<serial, cached_mac, stage, inbuf, conn, op, command,
                   timeout, lines, elapsed, ret, wire, consumed, emitted,
                   address>>

\* while time.time() - start_time < response_timeout: the loop condition fails
SendPollTimeout ==
    /\ pc = "send_poll"
    /\ ~InTime(elapsed, timeout)
    /\ EndPoll("timeout", TRUE)
    /\ UNCHANGED <<serial, cached_mac, stage, inbuf, conn, op, command,
                   timeout, lines, elapsed, ret, wire, consumed, emitted,
                   address>>

----------------------------------------------------------------------------
(* A2DPConnection.pair_device *)

\* pair_device without the optimistic branch
pair_result_strict(response) ==
    Contains(response, "OK") \/ Contains(response, "PAIR_OK")

\* the branches of pair_device on the response to PAIR
pair_result(response) ==
    IF Contains(response, "OK") \/ Contains(response, "PAIR_OK") THEN TRUE
    ELSE IF Contains(response, "ERROR") THEN FALSE
    ELSE TRUE

----------------------------------------------------------------------------
(* The end of send_command and what its caller does with the response *)

\* the operation in progress returns r
Done(r) ==
    /\ ret' = r
    /\ pc' = "returned"
    /\ op' = "none"
    /\ wire' = None

\* the locals of the call in progress
locals == <<command, timeout, lines, elapsed>>

\* the buffer and its history
call == <<inbuf, consumed, emitted>>

\* Python: s.split(c), c one character
RECURSIVE Split(_, _)
Split(s, c) ==
    LET p == FirstIndex(s, c)
    IN  IF p = 0 THEN <<s>>
        ELSE <<SubSeq(s, 1, p - 1)>> \o Split(SubSeq(s, p + 1, Len(s)), c)

\* Python: s.endswith(t)
EndsWith(s, t) ==
    Len(s) >= Len(t) /\ SubSeq(s, Len(s) - Len(t) + 1, Len(s)) = t

\* value = v.strip(); if value.endswith('OK'): value = value[:-2];
\* value = value.strip()
mac_value(v) ==
    LET value == Strip(v)
    IN  Strip(IF EndsWith(value, "OK")
              THEN SubSeq(value, 1, Len(value) - 2) ELSE value)

\* the value get_mac_address takes from one line of the response, <<>> when
\* the line gives none: LOCAL_ADDR=<value>, or the last part of a LOCAL_ADDR
\* line of two parts or more
mac_of_line(line) ==
    LET parts == TokensFrom(line, 1)
        last == CHOOSE t \in parts : \A u \in parts : t[1] >= u[1]
    IN  IF Contains(line, "LOCAL_ADDR") /\ Contains(line, "=")
        THEN <<mac_value(Split(line, "=")[2])>>
        ELSE IF Contains(line, "LOCAL_ADDR") /\ Cardinality(parts) >= 2
        THEN <<mac_value(SubSeq(line, last[1], last[2]))>>
        ELSE <<>>

\* the value of the first line that gives one
RECURSIVE mac_of_lines(_)
mac_of_lines(ls) ==
    IF ls = <<>> THEN <<>>
    ELSE IF mac_of_line(Head(ls)) # <<>> THEN mac_of_line(Head(ls))
    ELSE mac_of_lines(Tail(ls))

\* for line in response.split('\n'): ...
parse_mac(response) == mac_of_lines(Split(response, "\n"))

\* what the caller of send_command does with the response
Continue(o, response) ==
    CASE o = "get_mac_address" ->
            /\ cached_mac' = IF parse_mac(response) # <<>>
                              THEN parse_mac(response)[1] ELSE cached_mac
            /\ Done(Returned(o, IF parse_mac(response) # <<>>
                                THEN parse_mac(response)[1] ELSE response,
                             TRUE, None))
            /\ UNCHANGED <<conn, call, locals, endReason, stage>>
      [] o = "pair_device" ->
            /\ paired_address' =
                   IF pair_result(response) THEN address ELSE paired_address
            /\ Done(Returned(o, response, pair_result(response), None))
            /\ UNCHANGED <<a2dp_link_id, avrcp_link_id, call, locals,
                           endReason, cached_mac, stage>>
      [] o = "disconnect" ->
            \* a CLOSE returned: forget the link, close the other one
            /\ UNCHANGED <<cached_mac, stage>>
            /\ IF Truthy(a2dp_link_id)
               THEN /\ a2dp_link_id' = None
                    /\ IF Truthy(avrcp_link_id)
                       THEN /\ SendEntry(o, "CLOSE " \o avrcp_link_id,
                                         DEFAULT_TIMEOUT)
                            /\ wire' = None
                            /\ endReason' = "none"
                            /\ UNCHANGED <<paired_address, avrcp_link_id,
                                           elapsed, emitted>>
                       ELSE /\ Done(Returned(o, "", TRUE, None))
                            /\ UNCHANGED <<paired_address, avrcp_link_id, call,
                                           locals, endReason>>
               ELSE /\ avrcp_link_id' = None
                    /\ Done(Returned(o, "", TRUE, None))
                    /\ UNCHANGED <<paired_address, a2dp_link_id, call, locals,
                                   endReason>>
      [] OTHER ->
            /\ Done(Returned(o, response, TRUE, None))
            /\ UNCHANGED <<conn, call, locals, endReason, cached_mac, stage>>

\* a timer that stops counting once it reaches COMMAND_DELAY
Later(t, d) == Min(COMMAND_DELAY, t + d)

\* a return that skips the pacing sleep
SendReturn_nosleep ==
    /\ pc = "send_delay"
    /\ Continue(op, Join(lines))
    /\ UNCHANGED <<serial, owed, address, sinceEnd>>

\* time.sleep(self.COMMAND_DELAY); return '\n'.join(response_lines)
SendReturn ==
    /\ pc = "send_delay"
    /\ sinceEnd' = Later(sinceEnd, COMMAND_DELAY)
    /\ Continue(op, Join(lines))
    /\ UNCHANGED <<serial, owed, address>>

----------------------------------------------------------------------------
(* The calls of send_command *)

\* the addresses of the remote devices
Addresses == {"F84E1776FDB1"}

\* the calls of send_command: a command, and a timeout or the default
SendCalls == {<<"STATUS", DEFAULT_TIMEOUT>>}

\* bt.send_command(command, timeout)
CallSend ==
    /\ pc = "idle"
    /\ \E c \in SendCalls : SendEntry("send_command", c[1], c[2])
    /\ endReason' = "none"
    /\ UNCHANGED <<serial, cached_mac, stage, conn, elapsed, wire, sinceEnd,
                   owed, emitted, address>>

\* a get_mac_address that asks the device every time
get_mac_address_uncached ==
    /\ pc = "idle"
    /\ SendEntry("get_mac_address", "GET LOCAL_ADDR", DEFAULT_TIMEOUT)
    /\ endReason' = "none"
    /\ UNCHANGED <<serial, cached_mac, stage, conn, elapsed, wire, sinceEnd,
                   owed, emitted, address>>

\* bt.get_mac_address(): the cached value when there is one, else
\* send_command("GET LOCAL_ADDR")
get_mac_address ==
    /\ pc = "idle"
    /\ IF Truthy(cached_mac)
       THEN /\ ret' = Returned("get_mac_address", cached_mac, TRUE, None)
            /\ pc' = "returned"
            /\ UNCHANGED <<inbuf, op, command, timeout, lines, consumed>>
       ELSE SendEntry("get_mac_address", "GET LOCAL_ADDR", DEFAULT_TIMEOUT)
    /\ endReason' = "none"
    /\ UNCHANGED <<serial, cached_mac, stage, conn, elapsed, wire, sinceEnd,
                   owed, emitted, address>>

\* a pair_device that sends the PAIR and loses the address it was given
CallPair_forgetful ==
    /\ pc = "idle"
    /\ \E a \in Addresses :
          /\ address' = None
          /\ SendEntry("pair_device", "PAIR " \o a, PAIR_TIMEOUT)
    /\ endReason' = "none"
    /\ UNCHANGED <<serial, cached_mac, stage, conn, elapsed, wire, sinceEnd,
                   owed, emitted>>

\* conn.pair_device(address): send_command(f"PAIR {address}", timeout=30.0)
CallPair ==
    /\ pc = "idle"
    /\ \E a \in Addresses :
          /\ address' = a
          /\ SendEntry("pair_device", "PAIR " \o a, PAIR_TIMEOUT)
    /\ endReason' = "none"
    /\ UNCHANGED <<serial, cached_mac, stage, conn, elapsed, wire, sinceEnd,
                   owed, emitted>>

\* ATSBT.connect: open the port, clear the buffers, time.sleep(0.5); or
\* serial.Serial(...) raises and connect returns False
Connect ==
    /\ pc = "idle"
    /\ serial = "None"
    /\ \/ /\ serial' = "open"
          /\ inbuf' = reset_input_buffer(inbuf)
          /\ sinceEnd' = Later(sinceEnd, CONNECT_SETTLE)
       \/ UNCHANGED <<serial, inbuf, sinceEnd>>
    /\ UNCHANGED <<cached_mac, stage, conn, op, pc, command, timeout, lines,
                   elapsed, ret, wire, consumed, endReason, owed, emitted,
                   address>>

\* ATSBT.disconnect: close the port and forget it
Disconnect ==
    /\ pc = "idle"
    /\ serial' = "None"
    /\ inbuf' = <<>>
    /\ UNCHANGED <<cached_mac, stage, conn, op, pc, command, timeout, lines,
                   elapsed, ret, wire, consumed, sinceEnd, endReason, owed,
                   emitted, address>>

\* the caller takes the outcome of the operation
CallerResumes ==
    /\ pc = "returned"
    /\ pc' = "idle"
    /\ ret' = NoRet
    /\ consumed' = <<>>
    /\ emitted' = Len(inbuf)
    /\ address' = None
    /\ command' = ""
    /\ timeout' = 0
    /\ lines' = <<>>
    /\ elapsed' = 0
    /\ UNCHANGED <<serial, cached_mac, stage, inbuf, conn, op, wire, sinceEnd,
                   endReason, owed>>

\* the caller lets time pass between two operations
CallerWaits ==
    /\ pc = "idle"
    /\ sinceEnd < COMMAND_DELAY
    /\ sinceEnd' = Later(sinceEnd, COMMAND_DELAY)
    /\ UNCHANGED <<serial, cached_mac, stage, inbuf, conn, op, pc, command,
                   timeout, lines, elapsed, ret, wire, consumed, endReason,
                   owed, emitted, address>>

\* the device sends a line, at most MaxEmit from one return to the next: an
\* answer to the command being awaited, or a late result of a command whose
\* await cycle is over
DeviceEmits ==
    /\ serial = "open"
    /\ pc # "returned"
    /\ emitted < MaxEmit
    /\ \/ /\ wire # None
          /\ \E t \in RepliesTo(op) : inbuf' = Append(inbuf, Line(t, "cur"))
       \/ /\ owed
          /\ \E t \in LateLines : inbuf' = Append(inbuf, Line(t, "late"))
    /\ emitted' = emitted + 1
    /\ UNCHANGED <<serial, cached_mac, stage, conn, op, pc, command, timeout,
                   lines, elapsed, ret, wire, consumed, sinceEnd, endReason,
                   owed, address>>

----------------------------------------------------------------------------
(* A2DPConnection._open_profile, open_a2dp, open_avrcp *)

\* re.search(r'OPEN_OK[^\d]*(\d+)', text): group 1, None when nothing matches.
\* The match starts at the first OPEN_OK, runs over what is not a digit and
\* takes the digits that follow.
open_ok_match(text) ==
    LET p == FirstIndex(text, "OPEN_OK")
        ds == {i \in (p + 7)..Len(text) : IsDigitAt(text, i)}
        lo == CHOOSE i \in ds : \A j \in ds : i <= j
        run == {j \in lo..Len(text) : \A k \in lo..j : IsDigitAt(text, k)}
        hi == CHOOSE j \in run : \A k \in run : j >= k
    IN  IF p = 0 \/ ds = {} THEN None ELSE SubSeq(text, lo, hi)

\* an extraction that never looks at the line
link_id_of_default(text, default_link_id) == default_link_id

\* link_id = match.group(1) if match else default_link_id
link_id_of(text, default_link_id) ==
    IF open_ok_match(text) # None THEN open_ok_match(text) ELSE default_link_id

\* a completion test that also stops at the PENDING acknowledgment
IsOpenFinal_pending(line) ==
    Contains(line, "OPEN_OK") \/ Contains(line, "ERROR")
        \/ Contains(line, "PENDING")

\* if 'OPEN_OK' in line or 'ERROR' in line: break
IsOpenFinal(line) == Contains(line, "OPEN_OK") \/ Contains(line, "ERROR")

\* branches that test PENDING before ERROR
open_branch_pending_first(response) ==
    IF Contains(response, "OPEN_OK") THEN "open"
    ELSE IF Contains(response, "PENDING") THEN "pending"
    ELSE "failed"

\* the branches of _open_profile on the collected response
open_branch(response) ==
    IF Contains(response, "OPEN_OK") THEN "open"
    ELSE IF Contains(response, "ERROR") THEN "failed"
    ELSE IF Contains(response, "PENDING") THEN "pending"
    ELSE "failed"

\* the profile and the default link id open_a2dp / open_avrcp pass on
Profile(o) == IF o = "open_a2dp" THEN "A2DP" ELSE "AVRCP"

DefaultLinkId(o) == IF o = "open_a2dp" THEN "10" ELSE "11"

\* a caller that records the link id whatever the outcome
OpenReturn_always(o, text, success, link_id) ==
    /\ a2dp_link_id' = IF o = "open_a2dp" THEN link_id ELSE a2dp_link_id
    /\ avrcp_link_id' = IF o = "open_avrcp" THEN link_id ELSE avrcp_link_id
    /\ Done(Returned(o, text, success, link_id))
    /\ UNCHANGED paired_address

\* _open_profile returns (success, link_id) and open_a2dp / open_avrcp record it
OpenReturn(o, text, success, link_id) ==
    /\ a2dp_link_id' =
           IF success /\ o = "open_a2dp" THEN link_id ELSE a2dp_link_id
    /\ avrcp_link_id' =
           IF success /\ o = "open_avrcp" THEN link_id ELSE avrcp_link_id
    /\ Done(Returned(o, text, success, link_id))
    /\ UNCHANGED paired_address

\* a call ends by an exception that reaches the caller
Abort(o, e) == Done(Raised(o, e))

\* open_a2dp(address) / open_avrcp(address) up to the clearing of the buffer
CallOpen ==
    /\ pc = "idle"
    /\ \E o \in {"open_a2dp", "open_avrcp"}, a \in Addresses \cup {None} :
          LET addr == IF Truthy(a) THEN a ELSE paired_address
          IN  IF ~Truthy(addr)
              THEN /\ ret' = Returned(o, "", FALSE, None)
                   /\ pc' = "returned"
                   /\ UNCHANGED <<inbuf, op, command, timeout, lines,
                                  consumed, address>>
              ELSE IF serial = "None"
              THEN /\ ret' = Raised(o, "AttributeError")
                   /\ pc' = "returned"
                   /\ UNCHANGED <<inbuf, op, command, timeout, lines,
                                  consumed, address>>
              ELSE /\ inbuf' = reset_input_buffer(MarkStale(inbuf))
                   /\ address' = addr
                   /\ command' = "OPEN " \o addr \o " " \o Profile(o) \o "\r"
                   /\ timeout' = OPEN_TIMEOUT
                   /\ lines' = <<>>
                   /\ consumed' = <<>>
                   /\ op' = o
                   /\ pc' = "open_write"
                   /\ ret' = NoRet
    /\ endReason' = "none"
    /\ UNCHANGED <<serial, cached_mac, stage, conn, elapsed, wire, sinceEnd,
                   owed, emitted>>

\* self.bt.serial.write(...); flush(); start = time.time()
OpenWrite ==
    /\ pc = "open_write"
    /\ Write
    /\ pc' = "open_poll"
    /\ UNCHANGED <<serial, cached_mac, stage, inbuf, conn, op, command,
                   timeout, lines, ret, consumed, sinceEnd, endReason, owed,
                   emitted, address>>

\* an open that forgets the link it tracks when it fails after the poll loop
OpenAfterPoll_forgets(ls, why) ==
    LET response == Join(ls)
    IN  /\ endReason' = why
        /\ owed' = (owed \/ why = "timeout")
        /\ sinceEnd' = 0
        /\ lines' = ls
        /\ CASE open_branch(response) = "open" ->
                    /\ OpenReturn(op, response, TRUE,
                                  link_id_of(response, DefaultLinkId(op)))
                    /\ UNCHANGED <<command, timeout, elapsed>>
             [] open_branch(response) = "failed" ->
                    /\ a2dp_link_id' =
                           IF op = "open_a2dp" THEN None ELSE a2dp_link_id
                    /\ avrcp_link_id' =
                           IF op = "open_avrcp" THEN None ELSE avrcp_link_id
                    /\ Done(Returned(op, response, FALSE, None))
                    /\ UNCHANGED <<paired_address, command, timeout, elapsed>>
             [] OTHER ->
                    /\ elapsed' = elapsed + OPEN_GRACE
                    /\ pc' = "open_drain"
                    /\ UNCHANGED <<conn, op, ret, wire, command, timeout>>

\* after the poll loop: the branches on the collected response
OpenAfterPoll(ls, why) ==
    LET response == Join(ls)
    IN  /\ endReason' = why
        /\ owed' = (owed \/ why = "timeout")
        /\ sinceEnd' = 0
        /\ lines' = ls
        /\ CASE open_branch(response) = "open" ->
                    /\ OpenReturn(op, response, TRUE,
                                  link_id_of(response, DefaultLinkId(op)))
                    /\ UNCHANGED <<command, timeout, elapsed>>
             [] open_branch(response) = "failed" ->
                    /\ OpenReturn(op, response, FALSE, None)
                    /\ UNCHANGED <<command, timeout, elapsed>>
             [] OTHER ->
                    \* time.sleep(2.0)
                    /\ elapsed' = elapsed + OPEN_GRACE
                    /\ pc' = "open_drain"
                    /\ UNCHANGED <<conn, op, ret, wire, command, timeout>>

\* one turn of the poll loop with nothing buffered: time.sleep(0.05)
OpenPollEmpty ==
    /\ pc = "open_poll"
    /\ elapsed < timeout
    /\ ~in_waiting(inbuf)
    /\ elapsed' = elapsed + RAW_POLL_SLEEP
    /\ UNCHANGED <<serial, cached_mac, stage, inbuf, conn, op, pc, command,
                   timeout, lines, ret, wire, consumed, sinceEnd, endReason,
                   owed, emitted, address>>

\* one turn of the poll loop with input buffered, the line does not end it
OpenPollRead ==
    /\ pc = "open_poll"
    /\ elapsed < timeout
    /\ in_waiting(inbuf)
    /\ LET line == Strip(Head(inbuf).text)
       IN  /\ ~(line # "" /\ IsOpenFinal(line))
           /\ lines' = IF line # "" THEN Append(lines, line) ELSE lines
    /\ inbuf' = Tail(inbuf)
    /\ consumed' = Append(consumed, Head(inbuf))
    /\ elapsed' = elapsed + RAW_POLL_SLEEP
    /\ UNCHANGED <<serial, cached_mac, stage, conn, op, pc, command, timeout,
                   ret, wire, sinceEnd, endReason, owed, emitted, address>>

\* one turn of the poll loop with input buffered, the line ends it: break
OpenPollFinal ==
    /\ pc = "open_poll"
    /\ elapsed < timeout
    /\ in_waiting(inbuf)
    /\ LET line == Strip(Head(inbuf).text)
       IN  /\ line # "" /\ IsOpenFinal(line)
           /\ inbuf' = Tail(inbuf)
           /\ consumed' = Append(consumed, Head(inbuf))
           /\ OpenAfterPoll(Append(lines, line), "marker")
    /\ UNCHANGED <<serial, cached_mac, stage, emitted, address>>

\* the loop condition fails: the window is over
OpenPollTimeout ==
    /\ pc = "open_poll"
    /\ elapsed >= timeout
    /\ OpenAfterPoll(lines, "timeout")
    /\ UNCHANGED <<serial, cached_mac, stage, call, address>>

\* readline() raises in the poll loop or in the drain: nothing catches it
OpenReadRaises ==
    /\ pc \in {"open_poll", "open_drain"}
    /\ pc = "open_poll" => elapsed < timeout
    /\ in_waiting(inbuf)
    /\ Abort(op, "SerialException")
    /\ endReason' = "exception"
    /\ UNCHANGED owed
    /\ sinceEnd' = 0
    /\ UNCHANGED <<serial, cached_mac, stage, conn, call, locals, address>>

\* the drain after PENDING: a line that is not the late OPEN_OK is dropped
OpenDrainRead ==
    /\ pc = "open_drain"
    /\ in_waiting(inbuf)
    /\ ~Contains(Strip(Head(inbuf).text), "OPEN_OK")
    /\ inbuf' = Tail(inbuf)
    /\ consumed' = Append(consumed, Head(inbuf))
    /\ UNCHANGED <<serial, cached_mac, stage, conn, op, pc, command, timeout,
                   lines, elapsed, ret, wire, sinceEnd, endReason, owed,
                   emitted, address>>

\* the drain after PENDING: the late OPEN_OK
OpenDrainOk ==
    /\ pc = "open_drain"
    /\ in_waiting(inbuf)
    /\ LET line == Strip(Head(inbuf).text)
       IN  /\ Contains(line, "OPEN_OK")
           /\ OpenReturn(op, line, TRUE, link_id_of(line, DefaultLinkId(op)))
    /\ inbuf' = Tail(inbuf)
    /\ consumed' = Append(consumed, Head(inbuf))
    /\ sinceEnd' = 0
    /\ UNCHANGED <<serial, cached_mac, stage, locals, endReason, owed, emitted,
                   address>>

\* a drain that finds the buffer empty and keeps a link id that is tracked
OpenDrainEmpty_keeps ==
    /\ pc = "open_drain"
    /\ ~in_waiting(inbuf)
    /\ LET tracked == IF op = "open_a2dp" THEN a2dp_link_id ELSE avrcp_link_id
       IN  IF tracked # None
           THEN /\ Done(Returned(op, Join(lines), TRUE, DefaultLinkId(op)))
                /\ UNCHANGED conn
           ELSE OpenReturn(op, Join(lines), TRUE, DefaultLinkId(op))
    /\ sinceEnd' = 0
    /\ UNCHANGED <<serial, cached_mac, stage, call, locals, endReason, owed,
                   address>>

\* the drain finds the buffer empty: assume pending means it will connect
OpenDrainEmpty ==
    /\ pc = "open_drain"
    /\ ~in_waiting(inbuf)
    /\ OpenReturn(op, Join(lines), TRUE, DefaultLinkId(op))
    /\ sinceEnd' = 0
    /\ UNCHANGED <<serial, cached_mac, stage, call, locals, endReason, owed,
                   address>>

----------------------------------------------------------------------------
(* A2DPConnection.scan_for_devices *)

\* the characters [0-9A-Fa-f] matches
HexDigits ==
    Digits \cup {"A", "B", "C", "D", "E", "F", "a", "b", "c", "d", "e", "f"}

\* the last position of the longest run of characters of cs that starts at
\* position i of s; i - 1 when there is none
RunEnd(s, i, cs) ==
    LET ends == {j \in i..Len(s) : \A k \in i..j : SubSeq(s, k, k) \in cs}
    IN  IF ends = {} THEN i - 1 ELSE CHOOSE j \in ends : \A k \in ends : j >= k

\* the character at position i of s, "" when s has no such position
CharAt(s, i) == IF i \in 1..Len(s) THEN SubSeq(s, i, i) ELSE ""

\* Python: s[i-1:j], which stops at the end of s
Slice(s, i, j) == SubSeq(s, i, Min(Len(s), j))

\* the characters of s
CharsOf(s) == {SubSeq(s, k, k) : k \in 1..Len(s)}

\* a replace that leaves the string as it is
Replace_kept(s, old, new) == s

\* Python: s.replace(old, new)
RECURSIVE Replace(_, _, _)
Replace(s, old, new) ==
    LET i == FirstIndex(s, old)
    IN  IF i = 0 THEN s
        ELSE SubSeq(s, 1, i - 1) \o new
                 \o Replace(SubSeq(s, i + Len(old), Len(s)), old, new)

\* Python: int(s) of an optional minus sign and decimal digits
RECURSIVE ParseNat(_)
ParseNat(s) ==
    IF s = "" THEN 0
    ELSE LET d == SubSeq(s, Len(s), Len(s))
             v == CHOOSE n \in 0..9 : ToString(n) = d
         IN  10 * ParseNat(SubSeq(s, 1, Len(s) - 1)) + v

ParseInt(s) ==
    IF SubSeq(s, 1, 1) = "-" THEN 0 - ParseNat(SubSeq(s, 2, Len(s)))
    ELSE ParseNat(s)

\* the match of
\*   INQUIRY\s+([0-9A-Fa-f]{12})\s+"([^"]+)"\s+([0-9A-Fa-f]+)\s+(-?\d+)
\* that starts at position p of s: the groups 1, 2 and 4, or <<>> when the
\* pattern does not match there
inquiry_match_at(s, p) ==
    LET ws1 == RunEnd(s, p + 7, Whitespace)
        adr == ws1 + 12
        ws2 == RunEnd(s, adr + 1, Whitespace)
        nam == RunEnd(s, ws2 + 2, CharsOf(s) \ {"\""})
        ws3 == RunEnd(s, nam + 2, Whitespace)
        cod == RunEnd(s, ws3 + 1, HexDigits)
        ws4 == RunEnd(s, cod + 1, Whitespace)
        sgn == IF CharAt(s, ws4 + 1) = "-" THEN ws4 + 1 ELSE ws4
        num == RunEnd(s, sgn + 1, Digits)
    IN  IF /\ Slice(s, p, p + 6) = "INQUIRY"
           /\ ws1 >= p + 7
           /\ adr <= Len(s)
           /\ \A k \in (ws1 + 1)..adr : CharAt(s, k) \in HexDigits
           /\ ws2 >= adr + 1
           /\ CharAt(s, ws2 + 1) = "\""
           /\ nam >= ws2 + 2
           /\ CharAt(s, nam + 1) = "\""
           /\ ws3 >= nam + 2
           /\ cod >= ws3 + 1
           /\ ws4 >= cod + 1
           /\ num >= sgn + 1
        THEN <<SubSeq(s, ws1 + 1, adr), SubSeq(s, ws2 + 2, nam),
               SubSeq(s, ws4 + 1, num)>>
        ELSE <<>>

\* a search that never finds the structured pattern
inquiry_search_never(s) == <<>>

\* re.search of that pattern in s: the leftmost match, <<>> when none
inquiry_search(s) ==
    LET at == {p \in 1..Len(s) : inquiry_match_at(s, p) # <<>>}
    IN  IF at = {} THEN <<>>
        ELSE inquiry_match_at(s, CHOOSE p \in at : \A q \in at : p <= q)

\* an unquoted format that takes the part after any part that is INQUIRY
unquoted_device_any(s) ==
    LET parts == TokensFrom(s, 1)
        word(t) == SubSeq(s, t[1], t[2])
        follows(u) ==
            \E t \in parts :
                /\ word(t) = "INQUIRY"
                /\ t[2] < u[1]
                /\ \A v \in parts : ~(t[2] < v[1] /\ v[1] < u[1])
        hits == {u \in parts : /\ follows(u)
                               /\ Len(word(u)) = 12
                               /\ CharsOf(word(u)) \subseteq HexDigits}
    IN  IF hits # {}
        THEN <<[address |-> word(CHOOSE u \in hits :
                                    \A v \in hits : u[1] <= v[1]),
                name |-> "Unknown", rssi |-> <<>>]>>
        ELSE <<>>

\* the unquoted format: the part after the first part that is INQUIRY and
\* has a part after it, when it is 12 hexadecimal digits
unquoted_device(s) ==
    LET parts == TokensFrom(s, 1)
        after(t) == {u \in parts : u[1] > t[2]}
        inq == {t \in parts :
                   SubSeq(s, t[1], t[2]) = "INQUIRY" /\ after(t) # {}}
        first == CHOOSE t \in inq : \A u \in inq : t[1] <= u[1]
        nxt == CHOOSE u \in after(first) : \A v \in after(first) : u[1] <= v[1]
        addr == SubSeq(s, nxt[1], nxt[2])
    IN  IF inq # {} /\ Len(addr) = 12 /\ CharsOf(addr) \subseteq HexDigits
        THEN <<[address |-> addr, name |-> "Unknown", rssi |-> <<>>]>>
        ELSE <<>>

\* a parse that does not set the acknowledgment and completion lines aside
parse_line_unfiltered(l) ==
    LET line == IF Contains(l, "PENDINGINQUIRY")
                THEN Replace(l, "PENDINGINQUIRY", "INQUIRY") ELSE l
        m == inquiry_search(line)
    IN  IF Contains(line, "INQUIRY ")
        THEN IF m # <<>>
             THEN <<[address |-> m[1], name |-> m[2],
                     rssi |-> <<ParseInt(m[3])>>]>>
             ELSE unquoted_device(line)
        ELSE <<>>

\* the devices one collected line contributes (rssi: <<>> is Python's None)
parse_line(l) ==
    LET line == IF Contains(l, "PENDINGINQUIRY")
                THEN Replace(l, "PENDINGINQUIRY", "INQUIRY") ELSE l
        m == inquiry_search(line)
    IN  IF Contains(line, "INQUIRY ") /\ ~Contains(line, "INQU_OK")
           /\ ~Contains(line, "INQUIRY_")
        THEN IF m # <<>>
             THEN <<[address |-> m[1], name |-> m[2],
                     rssi |-> <<ParseInt(m[3])>>]>>
             ELSE unquoted_device(line)
        ELSE <<>>

\* a parse that keeps the first entry of every address only
RECURSIVE parse_devices_dedup(_)
parse_devices_dedup(ls) ==
    IF ls = <<>> THEN <<>>
    ELSE LET before == parse_devices_dedup(SubSeq(ls, 1, Len(ls) - 1))
             new == parse_line(ls[Len(ls)])
         IN  IF new # <<>> /\ \E k \in DOMAIN before :
                                 before[k].address = new[1].address
             THEN before
             ELSE before \o new

\* for line in lines: ... devices.append(...)
RECURSIVE parse_devices(_)
parse_devices(ls) ==
    IF ls = <<>> THEN <<>> ELSE parse_line(Head(ls)) \o parse_devices(Tail(ls))

\* the durations scan_for_devices is called with, in seconds
Durations == {5}

\* conn.scan_for_devices(duration) up to the clearing of the buffer
CallScan ==
    /\ pc = "idle"
    /\ \E d \in Durations :
          IF serial = "None"
          THEN /\ ret' = Raised("scan_for_devices", "AttributeError")
               /\ pc' = "returned"
               /\ UNCHANGED <<inbuf, op, command, timeout, lines, consumed>>
          ELSE /\ inbuf' = reset_input_buffer(MarkStale(inbuf))
               /\ command' = "INQUIRY " \o ToString(d) \o "\r"
               /\ timeout' = SCAN_WINDOW
               /\ lines' = <<>>
               /\ consumed' = <<>>
               /\ op' = "scan_for_devices"
               /\ pc' = "scan_write"
               /\ ret' = NoRet
    /\ endReason' = "none"
    /\ UNCHANGED <<serial, cached_mac, stage, conn, elapsed, wire, sinceEnd,
                   owed, emitted, address>>

\* self.bt.serial.write(...); flush(); start = time.time()
ScanWrite ==
    /\ pc = "scan_write"
    /\ Write
    /\ pc' = "scan_poll"
    /\ UNCHANGED <<serial, cached_mac, stage, inbuf, conn, op, command,
                   timeout, lines, ret, consumed, sinceEnd, endReason, owed,
                   emitted, address>>

\* one turn of the collection loop with nothing buffered: time.sleep(0.05)
ScanPollEmpty ==
    /\ pc = "scan_poll"
    /\ elapsed < timeout
    /\ ~in_waiting(inbuf)
    /\ elapsed' = elapsed + RAW_POLL_SLEEP
    /\ UNCHANGED <<serial, cached_mac, stage, inbuf, conn, op, pc, command,
                   timeout, lines, ret, wire, consumed, sinceEnd, endReason,
                   owed, emitted, address>>

\* a collection loop that the completion marker ends
ScanPollRead_ends ==
    /\ pc = "scan_poll"
    /\ elapsed < timeout
    /\ in_waiting(inbuf)
    /\ inbuf' = Tail(inbuf)
    /\ consumed' = Append(consumed, Head(inbuf))
    /\ LET line == Strip(Head(inbuf).text)
           read == IF line # "" THEN Append(lines, line) ELSE lines
       IN  IF Contains(line, "INQUIRY_COMPLETE")
           THEN /\ Done([Returned(op, Join(read), TRUE, None)
                            EXCEPT !.devices = parse_devices(read)])
                /\ lines' = read
                /\ endReason' = "marker"
                /\ sinceEnd' = 0
                /\ UNCHANGED <<serial, cached_mac, stage, conn, command,
                               timeout, elapsed, owed, emitted, address>>
           ELSE /\ lines' = read
                /\ elapsed' = elapsed + RAW_POLL_SLEEP
                /\ UNCHANGED <<serial, cached_mac, stage, conn, op, pc,
                               command, timeout, ret, wire, sinceEnd,
                               endReason, owed, emitted, address>>

\* one turn of the collection loop with input buffered: no line ends it
ScanPollRead ==
    /\ pc = "scan_poll"
    /\ elapsed < timeout
    /\ in_waiting(inbuf)
    /\ LET line == Strip(Head(inbuf).text)
       IN  lines' = IF line # "" THEN Append(lines, line) ELSE lines
    /\ inbuf' = Tail(inbuf)
    /\ consumed' = Append(consumed, Head(inbuf))
    /\ elapsed' = elapsed + RAW_POLL_SLEEP
    /\ UNCHANGED <<serial, cached_mac, stage, conn, op, pc, command, timeout,
                   ret, wire, sinceEnd, endReason, owed, emitted, address>>

\* readline() raises in the collection loop: nothing catches it
ScanReadRaises ==
    /\ pc = "scan_poll"
    /\ elapsed < timeout
    /\ in_waiting(inbuf)
    /\ Abort(op, "SerialException")
    /\ endReason' = "exception"
    /\ sinceEnd' = 0
    /\ UNCHANGED <<serial, cached_mac, stage, conn, call, locals, owed,
                   address>>

\* the window is over: parse the collected lines and return the devices
ScanPollTimeout ==
    /\ pc = "scan_poll"
    /\ elapsed >= timeout
    /\ Done([Returned(op, Join(lines), TRUE, None)
                EXCEPT !.devices = parse_devices(lines)])
    /\ endReason' = "timeout"
    /\ owed' = TRUE
    /\ sinceEnd' = 0
    /\ UNCHANGED <<serial, cached_mac, stage, conn, call, locals, address>>

\* the lines a device sends while it scans: the acknowledgment and the
\* completion marker, results in the structured and in the unquoted format,
\* with and without a glued PENDING, and lines that are no result
ScanLines ==
    {"INQU_OK\r",
     "INQUIRY_COMPLETE",
     "INQUIRY F84E1776FDB1 \"LinkBuds S\" 240404 -61 dBm",
     "INQUIRY AABBCCDDEEFF \"INQU_OK\" 240404 -70 dBm",
     "PENDINGINQUIRY F84E1776FDB1 \"X\" 000000 -50 dBm",
     "INQUIRY AABBCCDDEEFF",
     "PENDINGINQUIRY AABBCCDDEEFF",
     "INQUIRY AABBCCDDEEFG \"n\" 24 -6",
     "INQUIRY X INQUIRY AABBCCDDEEFF",
     "\r"}

\* the scanning device sends a line, at most MaxEmit per scan
ScanDeviceEmits ==
    /\ serial = "open"
    /\ op = "scan_for_devices"
    /\ wire # None
    /\ emitted < MaxEmit
    /\ \E t \in ScanLines : inbuf' = Append(inbuf, Line(t, "cur"))
    /\ emitted' = emitted + 1
    /\ UNCHANGED <<serial, cached_mac, stage, conn, op, pc, command, timeout,
                   lines, elapsed, ret, wire, consumed, sinceEnd, endReason,
                   owed, address>>

----------------------------------------------------------------------------
(* A2DPConnection: media control and disconnect *)

MusicOps == {"music_play", "music_pause", "music_stop"}

Verb(o) ==
    CASE o = "music_play" -> "PLAY"
      [] o = "music_pause" -> "PAUSE"
      [] o = "music_stop" -> "STOP"

\* a music command addressed to the A2DP link
music_command_a2dp(o) ==
    IF ~Truthy(a2dp_link_id) THEN "AVRCP " \o Verb(o)
    ELSE "MUSIC " \o a2dp_link_id \o " " \o Verb(o)

\* the command of music_play / music_pause / music_stop
music_command(o) ==
    IF ~Truthy(avrcp_link_id) THEN "AVRCP " \o Verb(o)
    ELSE "MUSIC " \o avrcp_link_id \o " " \o Verb(o)

\* the levels set_volume is called with
Levels == {-5, 64, 200}

\* a level passed on as it was given
volume_level_unclamped(level) == level

\* level = max(0, min(127, level))
volume_level(level) == Max(0, Min(127, level))

\* link_id = self.avrcp_link_id or "11"; f"VOLUME {link_id} {level}"
volume_command(level) ==
    "VOLUME " \o (IF Truthy(avrcp_link_id) THEN avrcp_link_id ELSE "11")
              \o " " \o ToString(volume_level(level))

\* conn.music_play() / music_pause() / music_stop()
CallMusic ==
    /\ pc = "idle"
    /\ \E o \in MusicOps : SendEntry(o, music_command(o), DEFAULT_TIMEOUT)
    /\ endReason' = "none"
    /\ UNCHANGED <<serial, cached_mac, stage, conn, elapsed, wire, sinceEnd,
                   owed, emitted, address>>

\* A2DPConnection.set_volume up to the clearing of the input buffer
set_volume(level) ==
    /\ pc = "idle"
    /\ SendEntry("set_volume", volume_command(level), DEFAULT_TIMEOUT)
    /\ endReason' = "none"
    /\ UNCHANGED <<serial, cached_mac, stage, conn, elapsed, wire, sinceEnd,
                   owed, emitted, address>>

\* conn.set_volume(level)
CallSetVolume == \E level \in Levels : set_volume(level)

\* a teardown that sends CLOSE without looking at the tracked link id
CallClose_unconditional ==
    /\ pc = "idle"
    /\ SendEntry("disconnect", "CLOSE " \o a2dp_link_id, DEFAULT_TIMEOUT)
    /\ endReason' = "none"
    /\ UNCHANGED <<serial, cached_mac, stage, conn, elapsed, wire, sinceEnd,
                   owed, emitted, address>>

\* conn.disconnect(): CLOSE the A2DP link if one is tracked, else the AVRCP
\* link if one is tracked, else nothing
CallClose ==
    /\ pc = "idle"
    /\ IF Truthy(a2dp_link_id)
       THEN SendEntry("disconnect", "CLOSE " \o a2dp_link_id, DEFAULT_TIMEOUT)
       ELSE IF Truthy(avrcp_link_id)
       THEN SendEntry("disconnect", "CLOSE " \o avrcp_link_id, DEFAULT_TIMEOUT)
       ELSE /\ ret' = Returned("disconnect", "", TRUE, None)
            /\ pc' = "returned"
            /\ UNCHANGED <<inbuf, op, command, timeout, lines, consumed>>
    /\ endReason' = "none"
    /\ UNCHANGED <<serial, cached_mac, stage, conn, elapsed, wire, sinceEnd,
                   owed, emitted, address>>

----------------------------------------------------------------------------

Init ==
    /\ serial = "None"
    /\ inbuf = <<>>
    /\ paired_address = None
    /\ a2dp_link_id = None
    /\ avrcp_link_id = None
    /\ op = "none"
    /\ pc = "idle"
    /\ command = ""
    /\ timeout = 0
    /\ lines = <<>>
    /\ elapsed = 0
    /\ ret = NoRet
    /\ wire = None
    /\ consumed = <<>>
    /\ sinceEnd = COMMAND_DELAY
    /\ endReason = "none"
    /\ owed = FALSE
    /\ emitted = 0
    /\ address = None
    /\ cached_mac = None
    /\ stage = "start"

Next ==
    \/ Connect
    \/ Disconnect
    \/ CallSend
    \/ CallPair
    \/ SendWrite
    \/ SendPollEmpty
    \/ SendPollRead
    \/ SendPollRaise
    \/ SendPollTimeout
    \/ SendReturn
    \/ CallOpen
    \/ OpenWrite
    \/ OpenPollEmpty
    \/ OpenPollRead
    \/ OpenPollFinal
    \/ OpenPollTimeout
    \/ OpenReadRaises
    \/ OpenDrainRead
    \/ OpenDrainOk
    \/ OpenDrainEmpty
    \/ CallerResumes
    \/ CallerWaits
    \/ DeviceEmits

Spec == Init /\ [][Next]_vars

\* every operation of ATSBT and A2DPConnection that writes a command
NextSession ==
    \/ Connect
    \/ Disconnect
    \/ CallSend
    \/ CallPair
    \/ CallMusic
    \/ CallSetVolume
    \/ CallClose
    \/ SendWrite
    \/ SendPollEmpty
    \/ SendPollRead
    \/ SendPollRaise
    \/ SendPollTimeout
    \/ SendReturn
    \/ CallOpen
    \/ OpenWrite
    \/ OpenPollEmpty
    \/ OpenPollRead
    \/ OpenPollFinal
    \/ OpenPollTimeout
    \/ OpenReadRaises
    \/ OpenDrainRead
    \/ OpenDrainOk
    \/ OpenDrainEmpty
    \/ CallScan
    \/ ScanWrite
    \/ ScanPollEmpty
    \/ ScanPollRead
    \/ ScanReadRaises
    \/ ScanPollTimeout
    \/ CallerResumes
    \/ CallerWaits
    \/ DeviceEmits

SpecSession == Init /\ [][NextSession]_vars

\* the scans of a session
NextScan ==
    \/ Connect
    \/ Disconnect
    \/ CallScan
    \/ ScanWrite
    \/ ScanPollEmpty
    \/ ScanPollRead
    \/ ScanReadRaises
    \/ ScanPollTimeout
    \/ CallerResumes
    \/ CallerWaits
    \/ ScanDeviceEmits

SpecScan == Init /\ [][NextScan]_vars

\* the media controls of a session
NextMedia ==
    \/ Connect
    \/ Disconnect
    \/ CallMusic
    \/ CallSetVolume
    \/ SendWrite
    \/ SendPollEmpty
    \/ SendPollRead
    \/ SendPollRaise
    \/ SendPollTimeout
    \/ SendReturn
    \/ CallerResumes
    \/ DeviceEmits

SpecMedia == Init /\ [][NextMedia]_vars

\* the device information of a session
NextInfo ==
    \/ Connect
    \/ Disconnect
    \/ get_mac_address
    \/ SendWrite
    \/ SendPollEmpty
    \/ SendPollRead
    \/ SendPollRaise
    \/ SendPollTimeout
    \/ SendReturn
    \/ CallerResumes
    \/ DeviceEmits

SpecInfo == Init /\ [][NextInfo]_vars

----------------------------------------------------------------------------
(* main of ats_bt_a2dp_connect: the connection workflow *)

\* everything but the place where main stands
session == <<serial, inbuf, conn, op, pc, command, timeout, lines, elapsed,
             ret, wire, consumed, sinceEnd, endReason, owed, emitted, address,
             cached_mac>>

\* main goes from one step to another without calling anything
Step(from, to) ==
    /\ stage = from
    /\ pc = "idle"
    /\ stage' = to
    /\ UNCHANGED session

\* main takes the outcome of the call it made and goes on to step next
Proceed(next) ==
    /\ pc = "returned"
    /\ pc' = "idle"
    /\ stage' = next
    /\ ret' = NoRet
    /\ consumed' = <<>>
    /\ emitted' = Len(inbuf)
    /\ address' = None
    /\ command' = ""
    /\ timeout' = 0
    /\ lines' = <<>>
    /\ elapsed' = 0
    /\ UNCHANGED <<serial, inbuf, conn, op, wire, sinceEnd, endReason, owed,
                   cached_mac>>

\* the call in progress raised: the exception leaves the try block
Raises == pc = "returned" /\ ret.status \notin {"none", "ok"}

\* bt = ATSBT(); bt.connect()
MainConnects ==
    /\ stage = "start"
    /\ Connect

\* bt.connect() returned False: return 1
MainConnectFailed ==
    /\ serial = "None"
    /\ Step("start", "exit")

\* bt.connect() returned True
MainConnected ==
    /\ serial = "open"
    /\ Step("start", "mac")

\* print(f"Device MAC: {bt.get_mac_address()}"); conn = A2DPConnection(bt)
MainGetsMac ==
    /\ stage = "mac"
    /\ get_mac_address

MainGotMac ==
    /\ stage = "mac"
    /\ Proceed("scan")

\* devices = conn.scan_for_devices(duration=5), and the second scan
MainScans ==
    /\ stage \in {"scan", "rescan"}
    /\ CallScan

\* what main does with the devices: scan again or give up when there are none
\* (a second scan is not followed by a third), else let the user select one,
\* who may cancel
MainScanned ==
    /\ stage \in {"scan", "rescan"}
    /\ ~Raises
    /\ \/ /\ ret.devices = <<>>
          /\ stage = "scan"
          /\ Proceed("rescan")
       \/ /\ ret.devices = <<>>
          /\ Proceed("finally")
       \/ /\ ret.devices # <<>>
          /\ Proceed("pair") \/ Proceed("finally")

\* conn.pair_device(selected['address'])
MainPairs ==
    /\ stage = "pair"
    /\ CallPair

\* pairing failed: continue anyway, or return 1
MainPaired ==
    /\ stage = "pair"
    /\ ~Raises
    /\ \/ Proceed("a2dp")
       \/ ~ret.ok /\ Proceed("finally")

\* conn.open_a2dp() / conn.open_avrcp(): no address is passed
MainOpens ==
    /\ stage \in {"a2dp", "avrcp"}
    /\ CallOpen
    /\ LET o == IF stage = "a2dp" THEN "open_a2dp" ELSE "open_avrcp"
       IN  IF Truthy(paired_address)
           THEN op' = o /\ address' = paired_address
           ELSE ret'.op = o /\ ret'.status = "ok"

\* open_a2dp returned False: return 1; an AVRCP that failed is only a warning
MainOpened ==
    /\ ~Raises
    /\ \/ /\ stage = "a2dp"
          /\ IF ret.ok THEN Proceed("avrcp") ELSE Proceed("finally")
       \/ /\ stage = "avrcp"
          /\ Proceed("menu")

\* media_control_menu: p, s, v+ and v-
MainPlays ==
    /\ stage = "menu"
    /\ \/ CallMusic /\ op' \in {"music_play", "music_pause", "none"}
       \/ \E level \in {54, 74} : set_volume(level)

MainPlayed ==
    /\ stage = "menu"
    /\ Proceed("menu")

\* q in the menu
MainQuits ==
    /\ stage = "menu"
    /\ Step("menu", "cleanup")

\* conn.disconnect(), after the menu or in the handler of KeyboardInterrupt
MainCloses ==
    /\ stage \in {"cleanup", "interrupted"}
    /\ CallClose

MainClosed ==
    /\ stage \in {"cleanup", "interrupted"}
    /\ Proceed("finally")

\* an exception that is not KeyboardInterrupt leaves the try block: only the
\* finally clause runs
MainFails ==
    /\ stage \in {"scan", "rescan", "pair", "a2dp", "avrcp", "menu",
                  "cleanup", "interrupted"}
    /\ Raises
    /\ Proceed("failed")

\* the steps inside the try block
InTry == {"scan", "rescan", "pair", "a2dp", "avrcp", "menu", "cleanup"}

\* KeyboardInterrupt: the call in progress is abandoned where it stands.  The
\* menu catches it and breaks; elsewhere in the try block the handler runs
\* conn.disconnect(); in the handler it leaves only the finally clause.
KeyboardInterrupt ==
    /\ stage \in InTry \cup {"interrupted"}
    /\ stage' = CASE stage = "menu" -> "cleanup"
                  [] stage = "interrupted" -> "abandoned"
                  [] OTHER -> "interrupted"
    /\ pc' = "idle"
    /\ op' = "none"
    /\ wire' = None
    /\ ret' = NoRet
    /\ consumed' = <<>>
    /\ emitted' = Len(inbuf)
    /\ address' = None
    /\ command' = ""
    /\ timeout' = 0
    /\ lines' = <<>>
    /\ elapsed' = 0
    /\ owed' = (owed \/ wire # None)
    /\ endReason' = IF pc \in {"idle", "returned"} THEN endReason
                    ELSE "exception"
    /\ sinceEnd' = IF pc \in {"idle", "returned"} THEN sinceEnd ELSE 0
    /\ UNCHANGED <<serial, inbuf, conn, cached_mac>>

\* the steps at which only the finally clause is left
Closing == {"finally", "failed", "abandoned"}

\* finally: bt.disconnect()
MainFinally ==
    /\ stage \in Closing
    /\ serial = "open"
    /\ Disconnect

\* print("Done."); return
MainReturns ==
    /\ stage \in Closing
    /\ serial = "None"
    /\ stage' = "exit"
    /\ UNCHANGED session

NextMain ==
    \/ MainConnects
    \/ MainConnectFailed
    \/ MainConnected
    \/ MainGetsMac
    \/ MainGotMac
    \/ MainScans
    \/ MainScanned
    \/ MainPairs
    \/ MainPaired
    \/ MainOpens
    \/ MainOpened
    \/ MainPlays
    \/ MainPlayed
    \/ MainQuits
    \/ MainCloses
    \/ MainClosed
    \/ MainFails
    \/ KeyboardInterrupt
    \/ MainFinally
    \/ MainReturns
    \/ SendWrite
    \/ SendPollEmpty
    \/ SendPollRead
    \/ SendPollRaise
    \/ SendPollTimeout
    \/ SendReturn
    \/ ScanWrite
    \/ ScanPollEmpty
    \/ ScanPollRead
    \/ ScanReadRaises
    \/ ScanPollTimeout
    \/ OpenWrite
    \/ OpenPollEmpty
    \/ OpenPollRead
    \/ OpenPollFinal
    \/ OpenPollTimeout
    \/ OpenReadRaises
    \/ OpenDrainRead
    \/ OpenDrainOk
    \/ OpenDrainEmpty
    \/ DeviceEmits

SpecMain == Init /\ [][NextMain]_vars

\* the media controls of a session that opens its profile links
NextPlay ==
    \/ Connect
    \/ Disconnect
    \/ CallOpen
    \/ OpenWrite
    \/ OpenPollEmpty
    \/ OpenPollRead
    \/ OpenPollFinal
    \/ OpenPollTimeout
    \/ OpenReadRaises
    \/ OpenDrainRead
    \/ OpenDrainOk
    \/ OpenDrainEmpty
    \/ CallMusic
    \/ CallSetVolume
    \/ SendWrite
    \/ SendPollEmpty
    \/ SendPollRead
    \/ SendPollRaise
    \/ SendPollTimeout
    \/ SendReturn
    \/ CallerResumes
    \/ DeviceEmits

SpecPlay == Init /\ [][NextPlay]_vars

----------------------------------------------------------------------------
(* Properties: the command/response engine *)

\* the marker tokens of a complete response
Tokens == {"OK", "ERROR", "PENDING", "ACK"}

HasToken(l) == \E t \in Tokens : Contains(l, t)

\* the non-empty lines among those read, stripped, in arrival order
RECURSIVE Collected(_)
Collected(cs) ==
    IF cs = <<>> THEN <<>>
    ELSE LET l == Strip(Head(cs).text)
         IN  (IF l # "" THEN <<l>> ELSE <<>>) \o Collected(Tail(cs))

\* the operations that go through send_command
SendOps == {"send_command", "pair_device"}

\* send_command has polled and its caller holds the outcome
SendPolled == pc = "returned" /\ ret.op \in SendOps /\ endReason # "none"

\* C1: send_command stops polling at the first line that contains OK, ERROR,
\* PENDING or ACK and returns the non-empty lines read up to and including
\* that line, in arrival order, joined by a newline; a line without a token
\* never stops polling, and what arrives after the terminal line is not in
\* the response.
C1_StopsAtFirstTerminalLine ==
    SendPolled =>
        LET got == Collected(consumed)
        IN  /\ ret.status = "ok"
            /\ ret.text = Join(got)
            /\ \A i \in 1..(Len(got) - 1) : ~HasToken(got[i])
            /\ (endReason = "marker") <=>
                   (got # <<>> /\ HasToken(got[Len(got)]))

\* C1: a marker-less line was read, then the line with OK ended the polling
C1_Witness ==
    /\ SendPolled
    /\ ret.op = "send_command"
    /\ endReason = "marker"
    /\ ret.text = "GARBAGE\nSTATUS OK"

\* the transport has delivered no line that contains a marker token
NoTokenDelivered ==
    /\ \A i \in DOMAIN consumed : ~HasToken(Strip(consumed[i].text))
    /\ \A i \in DOMAIN inbuf : ~HasToken(Strip(inbuf[i].text))

C3_NoLateReplyAttributed ==
    pc = "returned" =>
        \A i \in DOMAIN consumed :
            LET l == Strip(consumed[i].text)
            IN  (l # "" /\ Contains(ret.text, l)) => consumed[i].re = "cur"

\* the positions where the next statement writes a command line
AboutToWrite == pc \in {"send_write", "open_write", "scan_write"}

\* C4: any two consecutive command lines written to the transport, whether
\* by send_command or by _open_profile, are separated by at least
\* COMMAND_DELAY, measured from the end of the first command's response
\* collection.  Stated on the calls that follow a command whose response
\* collection ended by a marker or by its window, not by a read error.
C4_WritesAreCommandDelayApart ==
    [][(pc = "idle" /\ endReason # "exception" /\ AboutToWrite')
          => sinceEnd >= COMMAND_DELAY]_vars

\* the operations that go through _open_profile
OpenOps == {"open_a2dp", "open_avrcp"}

\* the last line read ended the await cycle of operation o by its marker
EndedByMarker(o) ==
    /\ consumed # <<>>
    /\ LET l == Strip(consumed[Len(consumed)].text)
       IN  IF o \in OpenOps
           THEN Contains(l, "OPEN_OK") \/ Contains(l, "ERROR")
           ELSE HasToken(l)

\* the await cycle of operation o was left in one of the ways `ends` and as
\* that way says
CycleEndedFor(o, ends) ==
    /\ endReason \in ends
    /\ endReason = "marker" => EndedByMarker(o)
    /\ endReason = "timeout" => elapsed >= timeout

\* the operation returned with its await cycle left in one of the ways `ends`
CycleEnded(ends) ==
    /\ wire = None
    /\ CycleEndedFor(ret.op, ends)

C6_BufferedLinesNeverReturned ==
    /\ (pc = "returned" /\ ret.op \in SendOps) =>
           \A i \in DOMAIN consumed : ~consumed[i].stale
    /\ pc = "send_write" => \A i \in DOMAIN inbuf : ~inbuf[i].stale

\* C6: send_command returned a response and a line the device had sent before
\* the call was neither read nor left in the buffer
C6_Witness ==
    /\ SendPolled
    /\ ret.op = "send_command"
    /\ ret.text # ""
    /\ emitted > Len(inbuf) + Len(consumed)

----------------------------------------------------------------------------
(* Properties: pairing and profile open *)

\* pair_device has just returned the outcome of a PAIR command
PairAnswered == pc = "returned" /\ ret.op = "pair_device" /\ ret.status = "ok"

\* C7: whenever the response to the PAIR command contains ERROR, pair_device
\* returns False and does not record the address as paired_address.
C7_ErrorResponseFailsPairing ==
    [][(pc # "returned" /\ PairAnswered' /\ Contains(ret'.text, "ERROR"))
          => (~ret'.ok /\ paired_address' = paired_address)]_vars

\* C8: pair_device returns True and sets paired_address to the given address
\* when the response to PAIR contains OK or PAIR_OK, and also for any other
\* non-empty response that contains neither a success nor an error marker.
C8_PairedOnSuccessOrAmbiguous ==
    (/\ PairAnswered
     /\ \/ Contains(ret.text, "OK")
        \/ Contains(ret.text, "PAIR_OK")
        \/ (ret.text # "" /\ ~Contains(ret.text, "ERROR")))
        => (ret.ok /\ paired_address = address)

\* C8: the response to PAIR only said PENDING and the address was recorded
C8_Witness ==
    /\ PairAnswered
    /\ ret.text = "PENDING"
    /\ ret.ok
    /\ paired_address = address

\* open_a2dp / open_avrcp has just returned the outcome of an OPEN command
OpenAnswered == pc = "returned" /\ ret.op \in OpenOps /\ ret.status = "ok"

\* the open failed: (False, None), and the tracked link ids are as before
OpenFailed ==
    /\ ~ret'.ok
    /\ ret'.link = None
    /\ a2dp_link_id' = a2dp_link_id
    /\ avrcp_link_id' = avrcp_link_id

\* C9 as stated: if a line containing ERROR is received in reply to an OPEN
\* command at any point before _open_profile returns, it returns
\* (False, None) and open_a2dp / open_avrcp do not set the tracked link id.
C9_ErrorAtAnyPointFailsOpen ==
    [][(/\ pc # "returned"
        /\ OpenAnswered'
        /\ \E i \in DOMAIN consumed' :
              /\ consumed'[i].re = "cur"
              /\ Contains(Strip(consumed'[i].text), "ERROR"))
          => OpenFailed]_vars

\* C9 amended: if a line containing ERROR and no OPEN_OK is received during
\* the polling window of an OPEN command, _open_profile returns (False, None)
\* and open_a2dp / open_avrcp do not set the tracked link id; an ERROR line
\* that arrives during the grace wait after PENDING is dropped.
C9_ErrorInWindowFailsOpen ==
    [][(/\ pc # "returned"
        /\ OpenAnswered'
        /\ \E i \in DOMAIN lines' :
              /\ Contains(lines'[i], "ERROR")
              /\ ~Contains(lines'[i], "OPEN_OK"))
          => OpenFailed]_vars

\* C9: the OPEN was acknowledged by PENDING, then refused inside the window
C9_Witness ==
    /\ OpenAnswered
    /\ ret.text = "PENDING\nERROR"
    /\ ~ret.ok

\* the last token of digits only after the OPEN_OK marker of a line, None
\* when there is none
TrailingInteger(line) ==
    LET p == FirstIndex(line, "OPEN_OK") + 7
        ints == {t \in TokensFrom(line, p) :
                    \A k \in t[1]..t[2] : IsDigitAt(line, k)}
        last == CHOOSE t \in ints : \A u \in ints : u[1] <= t[1]
    IN  IF ints = {} THEN None ELSE SubSeq(line, last[1], last[2])

\* the OPEN_OK line a successful open acted upon
OpenOkLine == IF endReason = "marker" THEN lines[Len(lines)] ELSE ret.text

\* C10: on an OPEN_OK line _open_profile returns success with the link id
\* equal to the trailing integer token of that line, and with the profile's
\* default ("10" for A2DP, "11" for AVRCP) exactly when the line carries no
\* integer token after the marker.
C10_LinkIdIsTrailingIntegerToken ==
    (OpenAnswered /\ Contains(ret.text, "OPEN_OK")) =>
        /\ ret.ok
        /\ ret.link = IF TrailingInteger(OpenOkLine) # None
                      THEN TrailingInteger(OpenOkLine)
                      ELSE DefaultLinkId(ret.op)

----------------------------------------------------------------------------
(* Properties: the pending window of _open_profile *)

\* the response collected in the polling window holds PENDING and neither a
\* success nor an error marker, and _open_profile has returned
PendingWindow ==
    /\ OpenAnswered
    /\ endReason # "none"
    /\ Contains(Join(lines), "PENDING")
    /\ ~Contains(Join(lines), "OPEN_OK")
    /\ ~Contains(Join(lines), "ERROR")

\* the non-empty lines read after the polling window, in the drain
Drained ==
    LET got == Collected(consumed)
    IN  SubSeq(got, Len(lines) + 1, Len(got))

\* the drain found a late OPEN_OK line: the last line it read
LateOpenOk ==
    /\ Drained # <<>>
    /\ Contains(Drained[Len(Drained)], "OPEN_OK")

OpenMarkers == {"OPEN_OK", "ERROR", "PENDING"}

\* a line that contains none of the markers of an OPEN
Unrelated(l) == \A t \in OpenMarkers : ~Contains(l, t)

\* no line with a marker of an OPEN was delivered to the call that returns
NoOpenMarkerDelivered ==
    /\ \A i \in DOMAIN consumed' : Unrelated(Strip(consumed'[i].text))
    /\ \A i \in DOMAIN inbuf' : Unrelated(Strip(inbuf'[i].text))

\* C12: when no line containing OPEN_OK, ERROR or PENDING is received within
\* the timeout, whether no line at all or only unrelated lines arrived,
\* _open_profile returns (False, None) once the window is over and the call
\* leaves the tracked link id of the profile as it was: unset stays unset.
C12_NoMarkerFailsOpen ==
    [][(/\ pc # "returned"
        /\ OpenAnswered'
        /\ endReason' # "none"
        /\ NoOpenMarkerDelivered)
          => (/\ OpenFailed
              /\ endReason' = "timeout"
              /\ elapsed' >= timeout')]_vars

\* C12: open_a2dp read only an unrelated line in its window, returned
\* (False, None) and the A2DP link id is still unset
C12_Witness ==
    /\ OpenAnswered
    /\ ret.op = "open_a2dp"
    /\ endReason = "timeout"
    /\ consumed # <<>>
    /\ \A i \in DOMAIN consumed : Unrelated(Strip(consumed[i].text))
    /\ inbuf = <<>>
    /\ ~ret.ok
    /\ ret.link = None
    /\ a2dp_link_id = None

----------------------------------------------------------------------------
(* Properties: teardown *)

\* both an A2DP and an AVRCP link id are tracked
BothTracked == Truthy(a2dp_link_id) /\ Truthy(avrcp_link_id)

\* A2DPConnection.disconnect comes back to its caller in this step; when it
\* does so straight from the call, the call found both link ids tracked
TeardownEnds ==
    /\ pc # "returned"
    /\ pc' = "returned"
    /\ ret'.op = "disconnect"
    /\ pc = "idle" => BothTracked

\* C13: whenever A2DPConnection.disconnect is called with both an A2DP and an
\* AVRCP link id tracked, a CLOSE is attempted for each and both tracked ids
\* are None afterwards, whatever the outcome of the CLOSE commands; a failure
\* while closing the A2DP link never causes the AVRCP close to be skipped.
C13_TeardownClosesEachLink ==
    [][TeardownEnds =>
          /\ a2dp_link_id' = None
          /\ avrcp_link_id' = None]_vars

\* no link id is tracked
NoneTracked == ~Truthy(a2dp_link_id) /\ ~Truthy(avrcp_link_id)

\* A2DPConnection.disconnect returns normally in this step
TeardownReturns ==
    /\ pc # "returned"
    /\ pc' = "returned"
    /\ ret'.op = "disconnect"
    /\ ret'.status = "ok"

\* C14: teardown is idempotent.  A call of ATSBT.disconnect that finds the
\* serial handle None changes nothing; A2DPConnection.disconnect that returns
\* leaves both tracked link ids None, and a call of it that finds them None
\* returns at once without raising, writes nothing to the transport and
\* leaves the serial handle and the tracked link ids as they were.
C14_SecondTeardownIsNoOp ==
    [][/\ (Disconnect /\ serial = "None") => UNCHANGED vars
       /\ TeardownReturns => (a2dp_link_id' = None /\ avrcp_link_id' = None)
       /\ (CallClose /\ NoneTracked) =>
              /\ TeardownReturns
              /\ UNCHANGED <<serial, cached_mac, stage, conn, inbuf, wire,
                             command>>]_vars

\* C14: with the serial handle dropped and no link id tracked, a further
\* A2DPConnection.disconnect has returned at once, nothing written
C14_Witness ==
    /\ pc = "returned"
    /\ ret.op = "disconnect"
    /\ ret.status = "ok"
    /\ endReason = "none"
    /\ serial = "None"
    /\ a2dp_link_id = None
    /\ avrcp_link_id = None

----------------------------------------------------------------------------
(* Properties: the scan and its parser *)

\* scan_for_devices has returned the devices of a scan
Scanned ==
    /\ pc = "returned"
    /\ ret.op = "scan_for_devices"
    /\ ret.status = "ok"

\* the lines the scan received, stripped, the blank ones left out
Received == Collected(consumed)

\* a decimal integer with an optional minus sign
IsSignedInteger(s) ==
    LET d == IF CharAt(s, 1) = "-" THEN SubSeq(s, 2, Len(s)) ELSE s
    IN  d # "" /\ CharsOf(d) \subseteq Digits

\* the documented structured shape
\*   INQUIRY <12-hex-digit address> "<free-text name>" <hex code> <integer> dBm
\* read off a line: <<address, name, integer>>, or <<>> for a line of
\* another shape
Structured(l) ==
    LET rest == SubSeq(l, 23, Len(l))
        q == FirstIndex(rest, "\"")
        tail == SubSeq(rest, q + 1, Len(rest))
        toks == TokensFrom(tail, 1)
        word(t) == SubSeq(tail, t[1], t[2])
        cod == CHOOSE t \in toks : \A u \in toks : t[1] <= u[1]
        unit == CHOOSE t \in toks : \A u \in toks : t[1] >= u[1]
        num == CHOOSE t \in toks \ {cod, unit} : TRUE
    IN  IF /\ Len(l) > 23
           /\ SubSeq(l, 1, 8) = "INQUIRY "
           /\ CharsOf(SubSeq(l, 9, 20)) \subseteq HexDigits
           /\ SubSeq(l, 21, 22) = " \""
           /\ q > 1
           /\ Cardinality(toks) = 3
           /\ tail = " " \o word(cod) \o " " \o word(num) \o " dBm"
           /\ CharsOf(word(cod)) \subseteq HexDigits
           /\ IsSignedInteger(word(num))
        THEN <<SubSeq(l, 9, 20), SubSeq(rest, 1, q - 1), word(num)>>
        ELSE <<>>

\* the device the claim reads off a structured line
StructuredDevice(l) ==
    [address |-> Structured(l)[1], name |-> Structured(l)[2],
     rssi |-> <<ParseInt(Structured(l)[3])>>]

\* the devices returned hold d
Yields(d) == \E k \in DOMAIN ret.devices : ret.devices[k] = d

\* C15 as stated: for every line of the documented structured shape received
\* during the scan window, scan_for_devices yields a device whose address,
\* name and rssi are the address, the quoted name and the signed integer of
\* that line.
C15_StructuredLineYieldsItsDevice ==
    Scanned =>
        \A i \in DOMAIN Received :
            Structured(Received[i]) # <<>> =>
                Yields(StructuredDevice(Received[i]))

\* the markers that take a line out of the parse, and the glued prefix the
\* parser rewrites
ScanMarkers == {"INQU_OK", "INQUIRY_", "PENDINGINQUIRY"}

\* C15 amended: the same for every structured line whose name contains none
\* of INQU_OK, INQUIRY_ and PENDINGINQUIRY.
C15_StructuredLineWithPlainNameYieldsItsDevice ==
    Scanned =>
        \A i \in DOMAIN Received :
            (/\ Structured(Received[i]) # <<>>
             /\ \A m \in ScanMarkers : ~Contains(Structured(Received[i])[2], m))
                => Yields(StructuredDevice(Received[i]))

\* C15: the scan received the documented line of "LinkBuds S" and returned
\* its address, name and rssi
C15_Witness ==
    /\ Scanned
    /\ \E i \in DOMAIN Received :
          Received[i] = "INQUIRY F84E1776FDB1 \"LinkBuds S\" 240404 -61 dBm"
    /\ Yields([address |-> "F84E1776FDB1", name |-> "LinkBuds S",
               rssi |-> <<-61>>])

\* a line with the scan acknowledgment or the completion marker in it
IsScanMarkerLine(l) == Contains(l, "INQU_OK") \/ Contains(l, "INQUIRY_COMPLETE")

\* the lines of ls that are no marker lines, in order
RECURSIVE WithoutMarkerLines(_)
WithoutMarkerLines(ls) ==
    IF ls = <<>> THEN <<>>
    ELSE (IF IsScanMarkerLine(Head(ls)) THEN <<>> ELSE <<Head(ls)>>)
             \o WithoutMarkerLines(Tail(ls))

\* C16: lines containing INQU_OK or INQUIRY_COMPLETE never produce a device
\* in the list scan_for_devices returns, whatever else they contain: the list
\* is the one the other lines produce, and it is empty when every line
\* received holds a marker.
C16_MarkerLinesProduceNoDevice ==
    Scanned =>
        /\ ret.devices = parse_devices(WithoutMarkerLines(Received))
        /\ (\A i \in DOMAIN Received : IsScanMarkerLine(Received[i]))
               => ret.devices = <<>>

\* C16: the scan received a result line with INQU_OK in its name and a line
\* of another device, and returned the other device only
C16_Witness ==
    /\ Scanned
    /\ Received = <<"INQUIRY AABBCCDDEEFF \"INQU_OK\" 240404 -70 dBm",
                    "INQUIRY F84E1776FDB1 \"LinkBuds S\" 240404 -61 dBm">>
    /\ ret.devices = <<[address |-> "F84E1776FDB1", name |-> "LinkBuds S",
                        rssi |-> <<-61>>]>>

\* the line is a scan-result line with the token PENDING glued in front
IsGlued(l) == Slice(l, 1, 14) = "PENDINGINQUIRY"

\* the line without the glued PENDING
Unglued(l) == IF IsGlued(l) THEN SubSeq(l, 8, Len(l)) ELSE l

\* C17: a received line formed by gluing PENDING directly in front of a
\* scan-result line produces exactly the device entry of the same line
\* without the prefix: the devices returned are those of the lines with the
\* prefix taken off.
C17_GluedPendingParsesAsUnglued ==
    Scanned =>
        ret.devices =
            parse_devices([i \in DOMAIN Received |-> Unglued(Received[i])])

\* C17: the scan received an unquoted result with PENDING glued in front and
\* a structured one likewise, and returned both devices
C17_Witness ==
    /\ Scanned
    /\ Received = <<"PENDINGINQUIRY AABBCCDDEEFF",
                    "PENDINGINQUIRY F84E1776FDB1 \"X\" 000000 -50 dBm">>
    /\ ret.devices = <<[address |-> "AABBCCDDEEFF", name |-> "Unknown",
                        rssi |-> <<>>],
                       [address |-> "F84E1776FDB1", name |-> "X",
                        rssi |-> <<-50>>]>>

\* the line as the parser looks at it: a glued PENDINGINQUIRY rewritten
Rewritten(l) == Replace(l, "PENDINGINQUIRY", "INQUIRY")

\* a candidate line that does not match the structured pattern
IsFallbackLine(l) ==
    /\ Contains(Rewritten(l), "INQUIRY ")
    /\ ~Contains(Rewritten(l), "INQU_OK")
    /\ ~Contains(Rewritten(l), "INQUIRY_")
    /\ inquiry_search(Rewritten(l)) = <<>>

\* the whitespace token that follows the first INQUIRY token of s, "" when
\* there is no INQUIRY token or nothing follows it
AfterFirstInquiry(s) ==
    LET toks == TokensFrom(s, 1)
        word(t) == SubSeq(s, t[1], t[2])
        inq == {t \in toks : word(t) = "INQUIRY"}
        first == CHOOSE t \in inq : \A u \in inq : t[1] <= u[1]
        rest == {u \in toks : u[1] > first[2]}
    IN  IF inq = {} \/ rest = {} THEN ""
        ELSE word(CHOOSE u \in rest : \A v \in rest : u[1] <= v[1])

\* what the claim has a fallback line contribute
FallbackEntry(l) ==
    LET a == AfterFirstInquiry(Rewritten(l))
    IN  IF Len(a) = 12 /\ CharsOf(a) \subseteq HexDigits
        THEN <<[address |-> a, name |-> "Unknown", rssi |-> <<>>]>>
        ELSE <<>>

\* the devices of ls, the fallback lines read as the claim reads them
RECURSIVE WithFallbackEntries(_)
WithFallbackEntries(ls) ==
    IF ls = <<>> THEN <<>>
    ELSE (IF IsFallbackLine(Head(ls)) THEN FallbackEntry(Head(ls))
          ELSE parse_line(Head(ls))) \o WithFallbackEntries(Tail(ls))

\* C18: a candidate line that does not match the structured pattern yields
\* the device {address, "Unknown", None} if and only if the whitespace token
\* that follows its first INQUIRY token is exactly 12 hexadecimal characters,
\* and no device otherwise.
C18_FallbackTakesTokenAfterFirstInquiry ==
    Scanned => ret.devices = WithFallbackEntries(Received)

\* C18: the scan received an unquoted result and a line whose first INQUIRY
\* token is followed by something else, and returned the first device only
C18_Witness ==
    /\ Scanned
    /\ Received = <<"INQUIRY AABBCCDDEEFF", "INQUIRY X INQUIRY AABBCCDDEEFF">>
    /\ \A i \in DOMAIN Received : IsFallbackLine(Received[i])
    /\ ret.devices = <<[address |-> "AABBCCDDEEFF", name |-> "Unknown",
                        rssi |-> <<>>]>>

\* the positions of the received lines that parse as a device
Parsing == {i \in DOMAIN Received : parse_line(Received[i]) # <<>>}

\* the place in the result of the device of the parsing line at position i
Rank(i) == Cardinality({j \in Parsing : j <= i})

\* C19: the list scan_for_devices returns has exactly one entry per received
\* line that parses as a device, in the order the lines arrived, with no
\* deduplication by address; a malformed line is skipped, does not abort the
\* scan and does not affect the entries of the other lines.
C19_OneEntryPerParsingLineInOrder ==
    Scanned =>
        /\ lines = Received
        /\ Len(ret.devices) = Cardinality(Parsing)
        /\ \A i \in Parsing :
               /\ Len(parse_line(Received[i])) = 1
               /\ ret.devices[Rank(i)] = parse_line(Received[i])[1]

\* C19: the device reported the same address twice and the scan returned
\* two entries in the order of arrival
C19_Witness ==
    /\ Scanned
    /\ Received = <<"INQUIRY F84E1776FDB1 \"LinkBuds S\" 240404 -61 dBm",
                    "PENDINGINQUIRY F84E1776FDB1 \"X\" 000000 -50 dBm">>
    /\ ret.devices = <<[address |-> "F84E1776FDB1", name |-> "LinkBuds S",
                        rssi |-> <<-61>>],
                       [address |-> "F84E1776FDB1", name |-> "X",
                        rssi |-> <<-50>>]>>

----------------------------------------------------------------------------
(* Properties: media control *)

\* min(127, max(0, level)) as the claim spells it out
Clamped(level) ==
    IF level > 127 THEN 127 ELSE IF level < 0 THEN 0 ELSE level

\* the last whitespace token of s
LastToken(s) ==
    LET toks == TokensFrom(s, 1)
        last == CHOOSE t \in toks : \A u \in toks : t[1] >= u[1]
    IN  IF toks = {} THEN "" ELSE SubSeq(s, last[1], last[2])

\* c is a VOLUME command
IsVolumeCommand(c) == Slice(c, 1, 7) = "VOLUME "

\* C20: for every level, set_volume transmits a VOLUME command whose level
\* argument is min(127, max(0, level)): above 127 it is 127, below 0 it is 0,
\* inside [0, 127] it is the level; the command composed is the one written,
\* and no VOLUME command with a level outside [0, 127] is ever written.
C20_VolumeIsClampedBeforeTransmission ==
    [][/\ \A level \in Levels :
              (set_volume(level) /\ pc' = "send_write") =>
                  /\ IsVolumeCommand(command')
                  /\ LastToken(command') = ToString(Clamped(level))
       /\ (pc = "send_write" /\ pc' = "send_poll") => wire' = command
       /\ IsVolumeCommand(wire') =>
              /\ IsSignedInteger(LastToken(wire'))
              /\ ParseInt(LastToken(wire')) \in 0..127]_vars

\* C20: set_volume(200) has written its command, which carries 127
C20_Witness ==
    /\ op = "set_volume"
    /\ pc = "send_poll"
    /\ wire = "VOLUME 11 127\r"

----------------------------------------------------------------------------
(* Properties: pacing, termination and the scan window *)

\* the ways the poll loop of send_command ends
PollEnds == {"marker", "timeout", "exception"}

\* send_command hands a response to its caller in this step
SendHandsOver ==
    /\ pc # "returned"
    /\ pc' = "returned"
    /\ ret'.op \in SendOps
    /\ ret'.status = "ok"

\* C21: send_command performs the COMMAND_DELAY sleep on every path by which
\* it returns a response: after a terminal marker line, after a timeout and
\* after a read exception that ends polling; the response is handed over only
\* from the sleep, COMMAND_DELAY after the end of polling.
C21_SleepsBeforeEveryReturn ==
    [][SendHandsOver =>
          /\ pc = "send_delay"
          /\ endReason \in PollEnds
          /\ sinceEnd = 0
          /\ sinceEnd' >= COMMAND_DELAY]_vars

\* C21: send_command returned after a read exception, the sleep done
C21_Witness ==
    /\ SendPolled
    /\ ret.status = "ok"
    /\ endReason = "exception"
    /\ sinceEnd >= COMMAND_DELAY

----------------------------------------------------------------------------
(* Termination: a device that never stops emitting *)

\* the lines of a device that keeps talking
FloodLines(o) ==
    CASE o = "pair_device" -> {"PENDING", "ERROR"}
      [] o \in {"open_a2dp", "open_avrcp"} ->
            {"GARBAGE", "PENDING", "OPEN_OK 12\r"}
      [] o = "scan_for_devices" ->
            {"INQU_OK\r",
             "INQUIRY F84E1776FDB1 \"LinkBuds S\" 240404 -61 dBm"}
      [] OTHER -> {"GARBAGE", "STATUS OK\r"}

\* the device sends a line whenever the buffer is empty, for as long as a
\* command is being awaited; nothing limits how many lines it sends
DeviceFloods ==
    /\ serial = "open"
    /\ wire # None
    /\ pc \notin {"idle", "returned"}
    /\ inbuf = <<>>
    /\ \E t \in FloodLines(op) : inbuf' = <<Line(t, "cur")>>
    /\ UNCHANGED <<serial, cached_mac, stage, conn, op, pc, command, timeout,
                   lines, elapsed, ret, wire, consumed, sinceEnd, endReason,
                   owed, emitted, address>>

\* the drain after PENDING reads a line that is not the late OPEN_OK and keeps
\* nothing of it: the loop has no local that changes with such a line, and it
\* consults no clock
OpenDrainDrops ==
    /\ pc = "open_drain"
    /\ in_waiting(inbuf)
    /\ ~Contains(Strip(Head(inbuf).text), "OPEN_OK")
    /\ inbuf' = Tail(inbuf)
    /\ UNCHANGED <<serial, cached_mac, stage, conn, op, pc, command, timeout,
                   lines, elapsed, ret, wire, consumed, sinceEnd, endReason,
                   owed, emitted, address>>

\* the scan loop finds its window over and leaves
ScanLeaves ==
    /\ pc = "scan_poll"
    /\ elapsed >= timeout
    /\ pc' = "returned"

\* the poll loop of _open_profile reads a line that ends it and leaves
OpenPollLeaves ==
    /\ pc = "open_poll"
    /\ elapsed < timeout
    /\ in_waiting(inbuf)
    /\ Strip(Head(inbuf).text) # ""
    /\ IsOpenFinal(Strip(Head(inbuf).text))
    /\ pc' = "returned"

\* the steps of the thread that is inside a call, the two above apart
Runs ==
    \/ SendWrite
    \/ SendPollEmpty
    \/ SendPollRead
    \/ SendPollRaise
    \/ SendPollTimeout
    \/ SendReturn
    \/ OpenWrite
    \/ OpenPollEmpty
    \/ OpenPollRead
    \/ OpenPollTimeout
    \/ OpenReadRaises
    \/ OpenDrainDrops
    \/ OpenDrainOk
    \/ OpenDrainEmpty
    \/ ScanWrite
    \/ ScanPollEmpty
    \/ ScanPollRead
    \/ ScanReadRaises

\* the thread inside a call is never suspended: as long as it can take a
\* step, it takes one
Scheduled ==
    /\ WF_vars(Runs)
    /\ WF_pc(ScanLeaves)
    /\ WF_pc(OpenPollLeaves)

NextFlood ==
    \/ Connect
    \/ CallSend
    \/ CallPair
    \/ CallOpen
    \/ CallScan
    \/ SendWrite
    \/ SendPollEmpty
    \/ SendPollRead
    \/ SendPollRaise
    \/ SendPollTimeout
    \/ SendReturn
    \/ OpenWrite
    \/ OpenPollEmpty
    \/ OpenPollRead
    \/ OpenPollFinal
    \/ OpenPollTimeout
    \/ OpenReadRaises
    \/ OpenDrainDrops
    \/ OpenDrainOk
    \/ OpenDrainEmpty
    \/ ScanWrite
    \/ ScanPollEmpty
    \/ ScanPollRead
    \/ ScanReadRaises
    \/ ScanPollTimeout
    \/ CallerResumes
    \/ DeviceFloods

SpecFlood == Init /\ [][NextFlood]_vars /\ Scheduled

\* the thread is inside a call
InCall == pc \notin {"idle", "returned"}

\* C22: every call of send_command, scan_for_devices, pair_device and
\* _open_profile returns to its caller, whatever the device emits and however
\* long it keeps emitting: no loop of a call can go on for ever.
C22_EveryCallTerminates == InCall ~> (pc = "returned")

\* every loop that checks the clock ends: a call that is not in the drain
\* after PENDING returns or reaches that drain
C22_DeadlineLoopsEnd ==
    (InCall /\ pc # "open_drain") ~> (pc \in {"returned", "open_drain"})

\* scan_for_devices hands its result to the caller
ScanHandsOver ==
    /\ pc # "returned"
    /\ pc' = "returned"
    /\ ret'.op = "scan_for_devices"
    /\ ret'.status = "ok"

\* the last turn of the collection loop: the window is over when it ends
LastTurn ==
    /\ pc = "scan_poll"
    /\ elapsed < timeout
    /\ elapsed' >= timeout

\* the scan was started as the code starts it and ran for its whole window,
\* and its result is parsed from the lines that were read in the window, none
\* of them buffered before the scan began
FullWindow ==
    /\ pc = "scan_poll"
    /\ Slice(wire, 1, 8) = "INQUIRY "
    /\ timeout = SCAN_WINDOW
    /\ elapsed >= timeout
    /\ endReason' = "timeout"
    /\ \A i \in DOMAIN consumed : ~consumed[i].stale
    /\ lines = Collected(consumed)
    /\ ret'.devices = parse_devices(Collected(consumed))

\* C23 as stated: scan_for_devices clears the input buffer, writes the INQUIRY
\* command to the transport and collects for the whole window, no line ending
\* the collection early; the result holds the devices of every line that
\* arrived inside the window (no device line is left unread when the window
\* closes) and of no line buffered before the scan began.
C23_WholeWindowEveryArrival ==
    [][/\ ScanHandsOver => FullWindow
       /\ LastTurn => parse_devices(Collected(inbuf')) = <<>>]_vars

\* C23: scan_for_devices clears the input buffer, writes the INQUIRY command
\* to the transport and collects for the whole window, no line ending the
\* collection early; the result holds the devices of every line read inside
\* the window and of no line buffered before the scan began.
C23_WholeWindowEveryLineRead == [][ScanHandsOver => FullWindow]_vars

\* a scan returned a device of a line that it read after the completion marker
C23_Witness ==
    /\ Scanned
    /\ elapsed >= timeout
    /\ Len(consumed) = 2
    /\ consumed[1].text = "INQUIRY_COMPLETE"
    /\ Len(ret.devices) = 1

----------------------------------------------------------------------------
(* Properties: the tracked link ids *)

\* open_a2dp / open_avrcp hands True to its caller
OpenSucceeds(o) ==
    /\ pc # "returned"
    /\ pc' = "returned"
    /\ ret'.op = o
    /\ ret'.status = "ok"
    /\ ret'.ok

\* the commands an open writes are OPEN commands
OnlyOpenWritten ==
    (op \in OpenOps /\ wire # None) => Slice(wire, 1, 5) = "OPEN "

\* C24: one link id is tracked per profile kind: an open_a2dp (open_avrcp) that
\* succeeds, a link id of its kind being tracked or not, leaves the link id it
\* obtained as the tracked id of its kind, leaves the tracked id of the other
\* kind as it was, and writes nothing but its OPEN command: no CLOSE for the
\* link it replaces.
C24_ReopenOverwritesWithoutClose ==
    /\ []OnlyOpenWritten
    /\ [][/\ OpenSucceeds("open_a2dp") =>
                /\ a2dp_link_id' = ret'.link
                /\ avrcp_link_id' = avrcp_link_id
          /\ OpenSucceeds("open_avrcp") =>
                /\ avrcp_link_id' = ret'.link
                /\ a2dp_link_id' = a2dp_link_id]_vars

\* open_a2dp, called while the A2DP link 12 and an AVRCP link are tracked, has
\* written its OPEN, was answered PENDING and finds nothing in the drain: it
\* is about to replace 12 by the default link id
C24_Witness ==
    /\ pc = "open_drain"
    /\ op = "open_a2dp"
    /\ a2dp_link_id = "12"
    /\ avrcp_link_id # None
    /\ Slice(wire, 1, 5) = "OPEN "
    /\ ~in_waiting(inbuf)

MediaOps == MusicOps \cup {"set_volume"}

\* a command is written to the transport during a media call
MediaWrite ==
    /\ op \in MediaOps
    /\ wire' # wire
    /\ wire' # None

\* the link a media command is addressed to
MediaLink == IF avrcp_link_id # None THEN avrcp_link_id ELSE "11"

\* the command lines of media call o
MediaLines(o) ==
    IF o \in MusicOps
    THEN {IF avrcp_link_id # None
          THEN "MUSIC " \o avrcp_link_id \o " " \o Verb(o) \o "\r"
          ELSE "AVRCP " \o Verb(o) \o "\r"}
    ELSE {"VOLUME " \o MediaLink \o " " \o ToString(n) \o "\r" : n \in 0..127}

\* C25: music_play, music_pause, music_stop and set_volume write one command,
\* through send_command with the default timeout: MUSIC <id> PLAY|PAUSE|STOP
\* and VOLUME <id> <level> with the tracked AVRCP link id, AVRCP PLAY|PAUSE|
\* STOP and VOLUME 11 <level> when none is tracked, never with the A2DP link
\* id; the call writes once, returns only after it wrote, and changes no
\* tracked state.
C25_MediaAddressedToAvrcpLink ==
    [][/\ MediaWrite =>
             /\ pc = "send_write" /\ pc' = "send_poll"
             /\ wire = None
             /\ wire' \in MediaLines(op)
             /\ timeout = DEFAULT_TIMEOUT
       /\ (op' \in MediaOps /\ pc # "send_write" /\ pc' = "send_write") =>
             pc = "idle"
       /\ (SendHandsOver /\ op \in MediaOps) =>
             /\ wire \in MediaLines(op)
             /\ ret'.op = op
       /\ (op \in MediaOps \/ op' \in MediaOps) => conn' = conn]_vars

\* music_play was written as MUSIC 12 PLAY to the AVRCP link 12 while the A2DP
\* link 10 is tracked
C25_Witness ==
    /\ pc = "send_poll"
    /\ op = "music_play"
    /\ wire = "MUSIC 12 PLAY\r"
    /\ avrcp_link_id = "12"
    /\ a2dp_link_id = "10"

----------------------------------------------------------------------------
(* Properties: the cached MAC address *)

\* get_mac_address hands a value to its caller
MacHandsOver ==
    /\ pc # "returned"
    /\ pc' = "returned"
    /\ ret'.op = "get_mac_address"
    /\ ret'.status = "ok"

\* C26: the MAC address is cached once: from the moment a non-empty value is
\* cached it never changes, no command is written, nothing is read, and every
\* call of get_mac_address returns it at once; a call made while none is cached
\* queries the device with GET LOCAL_ADDR, caches and returns the value parsed
\* from the response, and when the response gives no value caches nothing and
\* returns the response, so that the next call queries again.
C26_MacCachedOnce ==
    [][/\ Truthy(cached_mac) =>
             /\ cached_mac' = cached_mac
             /\ wire' = None
             /\ Len(inbuf') >= Len(inbuf) \/ Disconnect \/ Connect
             /\ MacHandsOver => (pc = "idle" /\ ret'.text = cached_mac)
       /\ (get_mac_address /\ ~Truthy(cached_mac) /\ is_connected) =>
             /\ pc' = "send_write"
             /\ command' = "GET LOCAL_ADDR\r"
       /\ (MacHandsOver /\ ~Truthy(cached_mac)) =>
             /\ wire = "GET LOCAL_ADDR\r"
             /\ IF parse_mac(Join(lines)) = <<>>
                THEN cached_mac' = cached_mac /\ ret'.text = Join(lines)
                ELSE /\ cached_mac' = parse_mac(Join(lines))[1]
                     /\ ret'.text = cached_mac']_vars

\* a call of get_mac_address made after the session was disconnected returned
\* the cached address without reading or writing anything
C26_Witness ==
    /\ pc = "returned"
    /\ ret.op = "get_mac_address"
    /\ ret.text = "00:1A:2B:3C:4D:5E"
    /\ cached_mac = ret.text
    /\ consumed = <<>>
    /\ endReason = "none"
    /\ serial = "None"

\* a call whose response gave no value returned the response and cached nothing
C26_WitnessUnparsed ==
    /\ pc = "returned"
    /\ ret.op = "get_mac_address"
    /\ ret.text = "ERROR"
    /\ cached_mac = None

----------------------------------------------------------------------------
(* Properties: calls made without a connection, and failed operations *)

\* a call of an operation that goes to send_command
Delegates ==
    \/ CallSend
    \/ CallPair
    \/ CallMusic
    \/ CallSetVolume
    \/ CallClose /\ (Truthy(a2dp_link_id) \/ Truthy(avrcp_link_id))

\* the transport, the locals of send_command and the pacing clock
engine == <<serial, inbuf, wire, command, timeout, lines, elapsed, consumed,
            sinceEnd>>

\* C27: while the session is not connected, send_command and every operation
\* that goes to it raise RuntimeError at once: nothing is written to or cleared
\* on the transport, there is no polling and no COMMAND_DELAY sleep, and the
\* session state (the port, the paired address, the tracked link ids, the
\* cached MAC address) is unchanged.
C27_NotConnectedRaisesAtOnce ==
    [][(Delegates /\ ~is_connected) =>
          /\ pc' = "returned"
          /\ ret'.status = "RuntimeError"
          /\ UNCHANGED <<engine, conn, cached_mac>>]_vars

\* pair_device, called after the port was closed with both links tracked,
\* raised RuntimeError
C27_Witness ==
    /\ pc = "returned"
    /\ ret.op = "pair_device"
    /\ ret.status = "RuntimeError"
    /\ serial = "None"
    /\ wire = None
    /\ consumed = <<>>
    /\ Truthy(a2dp_link_id) /\ Truthy(avrcp_link_id)

\* operation o ends without success: it returns False or raises
Fails(o) ==
    /\ pc # "returned"
    /\ pc' = "returned"
    /\ ret'.op = o
    /\ ~ret'.ok

\* C28: failed operations leave the bookkeeping as it was: a pair_device that
\* returns False (or raises) leaves paired_address, an open_a2dp / open_avrcp
\* that returns False (or raises) leaves both tracked link ids, and an open
\* that has no address to use returns False without writing anything; a
\* tracked link id becomes non-None only by a successful open of its kind,
\* which sets it to the link id obtained, and a teardown that returns leaves
\* both None.
C28_FailuresChangeNoBookkeeping ==
    [][/\ Fails("pair_device") => UNCHANGED conn
       /\ (Fails("open_a2dp") \/ Fails("open_avrcp")) => UNCHANGED conn
       /\ (CallOpen /\ pc' = "returned" /\ ret'.status = "ok") =>
             /\ ~Truthy(paired_address)
             /\ ~ret'.ok
             /\ UNCHANGED <<engine, conn>>
       /\ (a2dp_link_id' # a2dp_link_id /\ a2dp_link_id' # None) =>
             OpenSucceeds("open_a2dp") /\ a2dp_link_id' = ret'.link
       /\ (avrcp_link_id' # avrcp_link_id /\ avrcp_link_id' # None) =>
             OpenSucceeds("open_avrcp") /\ avrcp_link_id' = ret'.link
       /\ TeardownReturns => (a2dp_link_id' = None /\ avrcp_link_id' = None)
      ]_vars

\* an open_a2dp that was answered ERROR returned False and the A2DP link
\* tracked before it is still tracked
C28_Witness ==
    /\ pc = "returned"
    /\ ret.op = "open_a2dp"
    /\ ret.status = "ok"
    /\ ~ret.ok
    /\ Contains(ret.text, "ERROR")
    /\ Truthy(a2dp_link_id)

\* pair_device hands its boolean to the caller
PairHandsOver ==
    /\ pc # "returned"
    /\ pc' = "returned"
    /\ ret'.op = "pair_device"
    /\ ret'.status = "ok"

\* C29: pair_device returns False only when the response contains ERROR and
\* does not contain OK; in every other case, a PAIR that times out with an
\* empty response included, it returns True and records as paired_address the
\* address it sent the PAIR for.
C29_PairFailsOnlyOnErrorWithoutOk ==
    [][PairHandsOver =>
          /\ ret'.text = Join(Collected(consumed))
          /\ ret'.ok <=> ~(/\ Contains(ret'.text, "ERROR")
                           /\ ~Contains(ret'.text, "OK"))
          /\ ret'.ok =>
                /\ paired_address' = address
                /\ wire = "PAIR " \o paired_address' \o "\r"
                /\ timeout = PAIR_TIMEOUT
          /\ ~ret'.ok => paired_address' = paired_address]_vars

\* a PAIR that was not answered within its timeout returned True on the empty
\* response and the address is recorded
C29_Witness ==
    /\ pc = "returned"
    /\ ret.op = "pair_device"
    /\ ret.status = "ok"
    /\ ret.ok
    /\ ret.text = ""
    /\ consumed = <<>>
    /\ endReason = "timeout"
    /\ elapsed >= PAIR_TIMEOUT
    /\ paired_address = "F84E1776FDB1"

----------------------------------------------------------------------------
(* Properties: the exits of the connection workflow *)

\* the finally clause of main closes the transport
TransportCloses ==
    /\ stage \in Closing
    /\ serial = "open"
    /\ serial' = "None"

\* a command is written to the transport
Written == wire' # wire /\ wire' # None

\* C30: in main, once the transport was opened it is closed on every exit
\* path; on every path that ends with a profile link tracked (quit of the
\* menu, user interrupt, an error raised in the workflow) a CLOSE is written
\* for each tracked link id before the transport is closed, so that none is
\* tracked any more when it closes; and no command is written once the
\* transport is closed.
C30_EveryExitClosesLinksThenTransport ==
    /\ [](stage = "exit" => serial = "None")
    /\ [][/\ TransportCloses => NoneTracked
          /\ (Written /\ op = "disconnect") => Slice(wire', 1, 6) = "CLOSE "
          /\ Written => serial' = "open"]_vars

\* the same, the paths on which only the finally clause is left apart: an
\* error raised in the workflow, and an interrupt of the interrupt handler
C30_QuitAndInterruptCloseLinks ==
    /\ [](stage = "exit" => serial = "None")
    /\ [][/\ (TransportCloses /\ stage = "finally") => NoneTracked
          /\ (Written /\ op = "disconnect") => Slice(wire', 1, 6) = "CLOSE "
          /\ Written => serial' = "open"]_vars

====
